---- MODULE Spec2Model ----
(***************************************************************************)
(* Model of the LLM orchestration layer of praktikum_app:                  *)
(*   RetryExecutor.run            infrastructure/llm/retry.py              *)
(*   LLMRouter.execute            infrastructure/llm/router.py             *)
(*   ParseCourseUseCase.execute   application/course_decomposition.py      *)
(*   GeneratePracticeUseCase.execute  application/practice_generation.py   *)
(* Delays are counted in units of 0.25 s, so the default RetryPolicy       *)
(* (0.25 s base, 2.0 s cap, multiplier 2.0) is (1, 8, 2).                  *)
(***************************************************************************)
EXTENDS Integers, Sequences, FiniteSets, TLC

\* ------------------------------------------------------------------ bounds
MaxAttemptsBound == 3
MaxBaseDelay == 1
MaxDelayBound == 3
MaxMultiplier == 2
MaxRouterAttempts == 2
MaxRepairAttempts == 1
MaxCandidates == 2
MaxLoopRepairs == 2

\* -------------------------------------------------------------- arithmetic
Min(a, b) == IF a <= b THEN a ELSE b

RECURSIVE Pow(_, _)
Pow(b, e) == IF e <= 0 THEN 1 ELSE b * Pow(b, e - 1)

\* ------------------------------------------------------- exception classes
\* Direct base classes of the infrastructure errors and of the httpx errors
\* the transport can raise.
InfrastructureBases(t) ==
    CASE t = "LLMInfrastructureError" -> {"RuntimeError"}
      [] t = "LLMConfigurationError" -> {"LLMInfrastructureError"}
      [] t = "MissingApiKeyError" -> {"MissingApiKeyLLMError", "LLMInfrastructureError"}
      [] t = "LLMExecutionError" -> {"LLMTemporaryError", "LLMInfrastructureError"}
      [] t = "ProviderResponseError" -> {"LLMInfrastructureError"}
      [] t = "ProviderRequestError" -> {"LLMRequestRejectedError", "LLMInfrastructureError"}
      [] t = "ProviderRateLimitError" -> {"LLMInfrastructureError"}
      [] t = "ProviderServerError" -> {"LLMInfrastructureError"}
      [] t = "LLMRetryExhaustedError" -> {"LLMInfrastructureError"}
      [] t = "LLMResponseValidationError" -> {"LLMResponseSchemaError", "LLMInfrastructureError"}
      [] OTHER -> {}

\* httpx.ReadTimeout < TimeoutException < TransportError; ConnectError < TransportError.
HttpxBases(t) ==
    CASE t = "ReadTimeout" -> {"TimeoutException"}
      [] t = "TimeoutException" -> {"TransportError"}
      [] t = "ConnectError" -> {"TransportError"}
      [] t = "TransportError" -> {"Exception"}
      [] OTHER -> {}

\* The four application-level error classes are unrelated siblings.
ApplicationBases(t) ==
    IF t \in {"MissingApiKeyLLMError", "LLMRequestRejectedError",
              "LLMTemporaryError", "LLMResponseSchemaError"}
    THEN {"Exception"} ELSE {}

BuiltinBases(t) ==
    IF t \in {"RuntimeError", "ValueError", "AssertionError", "AuditStoreError"}
    THEN {"Exception"} ELSE {}

Bases(t) == InfrastructureBases(t) \cup HttpxBases(t) \cup ApplicationBases(t) \cup BuiltinBases(t)

RECURSIVE IsSubclass(_, _)
IsSubclass(t, cls) == t = cls \/ \E b \in Bases(t) : IsSubclass(b, cls)

\* isinstance(error, classes)
IsInstance(t, classes) == \E cls \in classes : IsSubclass(t, cls)

\* ------------------------------------------------------ operation outcomes
\* What one call of the operation (provider.generate) can produce: a
\* ProviderCallResponse, or one of the errors of clients.py and of httpx.
NoResponse ==
    [type |-> "None", valid |-> FALSE, candidates |-> 0, output_text |-> 0, detail |-> "None"]

ProviderErrorTypes ==
    {"ProviderRateLimitError", "ProviderServerError", "ProviderRequestError",
     "ProviderResponseError", "ReadTimeout", "ConnectError"}

\* The text an error carries: none, or a detail read from the response body,
\* here the one _build_provider_rejected_message looks for.
ErrorDetails == {"no_detail", "no endpoints found matching your data policy"}

ErrorOutcome(t, d) ==
    [type |-> t, valid |-> FALSE, candidates |-> 0, output_text |-> 0, detail |-> d]

ResponseOutcomes ==
    {[type |-> "ProviderCallResponse", valid |-> FALSE, candidates |-> 0, output_text |-> 0,
      detail |-> "None"]}
    \cup {[type |-> "ProviderCallResponse", valid |-> TRUE, candidates |-> n, output_text |-> 0,
           detail |-> "None"] :
            n \in 1..(MaxCandidates + 1)}

OperationOutcomes ==
    ResponseOutcomes \cup {ErrorOutcome(t, d) : t \in ProviderErrorTypes, d \in ErrorDetails}

\* ------------------------------------------------------- transport client
\* The literals of _raise_for_status.
HTTP_ERROR_FLOOR == 400
HTTP_TOO_MANY_REQUESTS == 429
HTTP_SERVER_ERROR_FIRST == 500
HTTP_SERVER_ERROR_LAST == 599

\* Status codes a provider can answer with: the edges of every class the
\* client tells apart, and one code inside each.
StatusCodes ==
    {200, 204, 299, 300, 302, 399, 400, 404, 428, 429, 430, 499, 500, 503, 599, 600}

\* _raise_for_status: "None" when it returns, else the class it raises.
_raise_for_status(code) ==
    IF code < HTTP_ERROR_FLOOR THEN "None"
    ELSE IF code = HTTP_TOO_MANY_REQUESTS THEN "ProviderRateLimitError"
    ELSE IF HTTP_SERVER_ERROR_FIRST <= code /\ code <= HTTP_SERVER_ERROR_LAST
    THEN "ProviderServerError"
    ELSE "ProviderRequestError"

\* What the body of a response yields once _raise_for_status has returned:
\* text that fits the schema or not, or a payload without the expected shape.
Bodies == {"valid_text", "invalid_text", "malformed"}

\* generate from the HTTP response on.
GenerateOutcome(code, body) ==
    IF _raise_for_status(code) # "None"
    THEN ErrorOutcome(_raise_for_status(code), "no_detail")
    ELSE IF body = "malformed"
    THEN ErrorOutcome("ProviderResponseError", "no_detail")
    ELSE [type |-> "ProviderCallResponse", valid |-> body = "valid_text",
          candidates |-> IF body = "valid_text" THEN 1 ELSE 0, output_text |-> 0,
          detail |-> "None"]

\* ------------------------------------------------------------- exceptions
\* One record shape for everything a call hands back to its caller: a raised
\* exception (type, attempts, cause = type of the exception it was raised
\* from, message) or a returned value (type "LLMResponse", ...).
NoException ==
    [type |-> "None", attempts |-> 0, cause |-> "None", message |-> "None",
     llm_call_id |-> 0, provider |-> "None", response |-> NoResponse]
Exc(t, msg) == [NoException EXCEPT !.type = t, !.message = msg]
ExcFrom(t, msg, cause) == [NoException EXCEPT !.type = t, !.message = msg, !.cause = cause]

\* ------------------------------------------------------------ RetryPolicy
RetryPolicy(a, b, m, k) ==
    [max_attempts |-> a, base_delay_seconds |-> b,
     max_delay_seconds |-> m, backoff_multiplier |-> k]

\* RetryExecutor.__init__ accepts exactly the policies within the floors.
PolicyAccepted(p) ==
    /\ ~(p.max_attempts < 1)
    /\ ~(p.base_delay_seconds < 0)
    /\ ~(p.max_delay_seconds < 0)
    /\ ~(p.backoff_multiplier < 1)

\* The error RetryExecutor.__init__ raises for policy p: the message of the
\* first floor the policy is under, "None" when it is under none.
PolicyCheck_attempts_only(p) ==
    IF p.max_attempts < 1 THEN "max_attempts must be >= 1" ELSE "None"

PolicyCheck(p) ==
    IF p.max_attempts < 1 THEN "max_attempts must be >= 1"
    ELSE IF p.base_delay_seconds < 0 THEN "base_delay_seconds must be >= 0"
    ELSE IF p.max_delay_seconds < 0 THEN "max_delay_seconds must be >= 0"
    ELSE IF p.backoff_multiplier < 1 THEN "backoff_multiplier must be >= 1"
    ELSE "None"

\* The policies a caller can hand to RetryExecutor(...): any numbers.
CandidatePolicies ==
    {RetryPolicy(a, b, m, k) : a \in 0..MaxAttemptsBound, b \in -1..MaxBaseDelay,
                               m \in -1..MaxDelayBound, k \in 0..MaxMultiplier}

Policies ==
    {p \in {RetryPolicy(a, b, m, k) : a \in 0..MaxAttemptsBound, b \in 0..MaxBaseDelay,
                                       m \in 0..MaxDelayBound, k \in 0..MaxMultiplier} :
        PolicyAccepted(p)}

\* RetryPolicy(): 0.25 s base, 2.0 s cap, multiplier 2.0; the router's executor
\* is built from such a policy with any attempt budget.
DEFAULT_BASE_DELAY == 1
DEFAULT_MAX_DELAY == 8
DEFAULT_MULTIPLIER == 2
DefaultPolicy == RetryPolicy(3, DEFAULT_BASE_DELAY, DEFAULT_MAX_DELAY, DEFAULT_MULTIPLIER)
RouterPolicies ==
    {RetryPolicy(a, DEFAULT_BASE_DELAY, DEFAULT_MAX_DELAY, DEFAULT_MULTIPLIER) :
        a \in 1..MaxRouterAttempts}

RetryableClasses ==
    {"ProviderRateLimitError", "ProviderServerError", "TimeoutException", "TransportError"}

is_retryable_llm_error_all(t) == IsInstance(t, RetryableClasses \cup {"ProviderRequestError"})
is_retryable_llm_error(t) == IsInstance(t, RetryableClasses)

BudgetExhausted_off(p, att) == att > p.max_attempts
BudgetExhausted(p, att) == att >= p.max_attempts

delay_seconds_uncapped(p, att) == p.base_delay_seconds * Pow(p.backoff_multiplier, att - 1)
delay_seconds(p, att) ==
    Min(p.max_delay_seconds, p.base_delay_seconds * Pow(p.backoff_multiplier, att - 1))

\* ---------------------------------------------------------- routing policy
TaskTypes == {"course_parse", "practice_gen", "practice_grade", "curator_msg"}
Providers == {"anthropic", "openrouter"}

EXPECTED_PROVIDER_BY_TASK(t) ==
    CASE t = "course_parse" -> "anthropic"
      [] t = "practice_grade" -> "anthropic"
      [] t = "practice_gen" -> "openrouter"
      [] t = "curator_msg" -> "openrouter"

\* default_routes(): the route table of a constructed router.
default_routes(t) ==
    CASE t = "course_parse" -> [provider |-> "anthropic", model |-> "anthropic_model"]
      [] t = "practice_grade" -> [provider |-> "anthropic", model |-> "anthropic_model"]
      [] t = "practice_gen" -> [provider |-> "openrouter", model |-> "openrouter_model"]
      [] t = "curator_msg" -> [provider |-> "openrouter", model |-> "openrouter_model"]

\* routes.get(task_type) is None
NoRoute == [provider |-> "None", model |-> "None"]

\* A TaskRoute names a provider and a model of that provider.
TaskRoutes ==
    {[provider |-> "anthropic", model |-> "anthropic_model"],
     [provider |-> "openrouter", model |-> "openrouter_model"]}

\* The route maps a caller can hand to LLMRouter(config=...).
RouteTables == [TaskTypes -> TaskRoutes \cup {NoRoute}]

\* Iteration order of EXPECTED_PROVIDER_BY_TASK.items().
ExpectedOrder == <<"course_parse", "practice_grade", "practice_gen", "curator_msg">>

\* The check validate_routing_policy makes of one task type.
RouteCheck_missing_only(rt, t) ==
    IF rt[t] = NoRoute THEN "missing_route" ELSE "ok"
RouteCheck(rt, t) ==
    IF rt[t] = NoRoute THEN "missing_route"
    ELSE IF rt[t].provider # EXPECTED_PROVIDER_BY_TASK(t) THEN "policy_violation"
    ELSE "ok"

\* validate_routing_policy from the i-th task type on: the first failure, or
\* "ok" when the loop ends.
RECURSIVE ValidateFrom(_, _)
ValidateFrom(rt, i) ==
    IF i > Len(ExpectedOrder) THEN "ok"
    ELSE IF RouteCheck(rt, ExpectedOrder[i]) # "ok" THEN RouteCheck(rt, ExpectedOrder[i])
    ELSE ValidateFrom(rt, i + 1)

validate_routing_policy(rt) == ValidateFrom(rt, 1)

\* LLMRouter._resolve_route
_resolve_route_first(rt, t) == rt[ExpectedOrder[1]]
_resolve_route(rt, t) == rt[t]

\* ------------------------------------------------------------- key store
\* get_key returns None, an empty string or a credential.
KeyValues == {"None", "", "sk-key"}

KeyMissing_none_only(api_key) == api_key = "None"
\* `if not api_key`
KeyMissing(api_key) == api_key = "None" \/ api_key = ""

\* ------------------------------------------------------------ audit store
\* Where the unit of work of one audit write fails, if it does.
AuditFaults == {"none", "acquire", "save_call", "commit"}

NoRecord ==
    [llm_call_id |-> 0, task_type |-> "None", provider |-> "None", model |-> "None",
     prompt_hash |-> <<>>, status |-> "None", output_text |-> 0]

\* Both use cases send one fixed system prompt.
\* A prompt is a text: a sequence of pieces, each a run of characters.
SystemPrompt == <<"system_prompt">>

\* The piece "---" is the five characters line feed, three hyphens, line
\* feed, which the hash puts between the prompts and which a prompt may
\* hold as well.
Separator == <<"---">>

\* str.encode("utf-8"): the bytes of each piece, in order.
encode(text) == [i \in 1..Len(text) |-> <<"utf8", text[i]>>]

\* _compute_prompt_hash: the digest of the bytes of system prompt, separator
\* and user prompt, fed one after the other; sha256 is taken as injective on
\* the bytes it is fed, so the digest is named by them.
_compute_prompt_hash(system_prompt, user_prompt) ==
    <<"sha256", encode(system_prompt) \o encode(Separator) \o encode(user_prompt)>>

AuditRecord_other_id(id, t, route, prompt_hash, status, text) ==
    [llm_call_id |-> id + 1, task_type |-> t, provider |-> route.provider,
     model |-> route.model, prompt_hash |-> prompt_hash, status |-> status,
     output_text |-> text]
\* The LLMCallAuditRecord _persist_audit builds.
AuditRecord(id, t, route, prompt_hash, status, text) ==
    [llm_call_id |-> id, task_type |-> t, provider |-> route.provider,
     model |-> route.model, prompt_hash |-> prompt_hash, status |-> status,
     output_text |-> text]

\* `except Exception` around the unit of work in _persist_audit.
AuditCatches_nothing(t) == FALSE
AuditCatches(t) == IsInstance(t, {"Exception"})

\* The except clauses of LLMRouter.execute, in source order; "unhandled"
\* when no clause matches and the exception leaves execute as it is.
ExceptClause(t) ==
    IF IsInstance(t, {"LLMResponseValidationError"}) THEN "validation"
    ELSE IF IsInstance(t, {"LLMRetryExhaustedError", "ProviderRateLimitError",
                           "ProviderServerError", "TimeoutException", "TransportError"})
    THEN "unavailable"
    ELSE IF IsInstance(t, {"ProviderRequestError"}) THEN "rejected"
    ELSE "unhandled"

\* The status each clause hands to _persist_audit.
ClauseStatus_copied(clause) ==
    CASE clause = "validation" -> "schema_invalid"
      [] clause = "unavailable" -> "provider_unavailable"
      [] clause = "rejected" -> "provider_unavailable"
ClauseStatus(clause) ==
    CASE clause = "validation" -> "schema_invalid"
      [] clause = "unavailable" -> "provider_unavailable"
      [] clause = "rejected" -> "provider_rejected"

\* What each clause raises after auditing and logging.
_build_provider_rejected_message(provider, error_text) ==
    IF provider = "openrouter"
          /\ error_text = "no endpoints found matching your data policy"
    THEN "openrouter_privacy_policy"
    ELSE "rejected_check_model_and_key"

ClauseRaises_echo(clause, exc, provider) ==
    CASE clause = "validation" -> exc
      [] clause = "unavailable" -> ExcFrom("LLMExecutionError", exc.message, exc.type)
      [] clause = "rejected" ->
            ExcFrom("LLMRequestRejectedError",
                    _build_provider_rejected_message(provider, exc.message), exc.type)
ClauseRaises(clause, exc, provider) ==
    CASE clause = "validation" -> exc
      [] clause = "unavailable" ->
            ExcFrom("LLMExecutionError", "temporarily_unavailable", exc.type)
      [] clause = "rejected" ->
            ExcFrom("LLMRequestRejectedError",
                    _build_provider_rejected_message(provider, exc.message), exc.type)

\* ------------------------------------------------------------- use cases
\* The except clauses around the router call in both use cases, in source order.
UseCaseClause_temporary_as_schema(t) ==
    IF IsInstance(t, {"MissingApiKeyLLMError"}) THEN "missing_key"
    ELSE IF IsInstance(t, {"LLMRequestRejectedError"}) THEN "rejected"
    ELSE IF IsInstance(t, {"LLMTemporaryError", "LLMResponseSchemaError"}) THEN "schema"
    ELSE IF t = "LLMResponse" THEN "response"
    ELSE "unhandled"
UseCaseClause(t) ==
    IF IsInstance(t, {"MissingApiKeyLLMError"}) THEN "missing_key"
    ELSE IF IsInstance(t, {"LLMRequestRejectedError"}) THEN "rejected"
    ELSE IF IsInstance(t, {"LLMTemporaryError"}) THEN "temporary"
    ELSE IF IsInstance(t, {"LLMResponseSchemaError"}) THEN "schema"
    ELSE IF t = "LLMResponse" THEN "response"
    ELSE "unhandled"

\* `if attempt_number >= max_attempts` in the schema-invalid clause.
RepairExhausted_off(attempt_number, max_attempts) == attempt_number > max_attempts
RepairExhausted(attempt_number, max_attempts) == attempt_number >= max_attempts

InitialPrompt == [kind |-> "initial", invalid_output |-> 0, validation_errors |-> "None"]
RepairPrompt(out, errors) ==
    [kind |-> "repair", invalid_output |-> out, validation_errors |-> errors]

\* _build_candidate_drafts: None (here <<>> with ok = FALSE) on a shortfall,
\* else the first candidate_count candidates numbered from 1; a candidate is
\* identified by its position in the response.
_build_candidate_drafts_short(candidates, count) ==
    [ok |-> TRUE,
     drafts |-> [i \in 1..Min(candidates, count) |-> [candidate_index |-> i, source |-> i]]]
_build_candidate_drafts_all(candidates, count) ==
    IF candidates < count
    THEN [ok |-> FALSE, drafts |-> <<>>]
    ELSE [ok |-> TRUE,
          drafts |-> [i \in 1..candidates |-> [candidate_index |-> i, source |-> i]]]
_build_candidate_drafts(candidates, count) ==
    IF candidates < count
    THEN [ok |-> FALSE, drafts |-> <<>>]
    ELSE [ok |-> TRUE,
          drafts |-> [i \in 1..count |-> [candidate_index |-> i, source |-> i]]]

NoBatch == [llm_call_id |-> 0, candidates |-> <<>>]

LoopResult_attempt_index(t, attempt_number, response) ==
    [NoException EXCEPT !.type = t, !.attempts = attempt_number - 1,
                        !.llm_call_id = response.llm_call_id,
                        !.response = response.response]
\* ParseCourseResult / GeneratePracticeResult built from the LLMResponse of
\* the pass that succeeded.
LoopResult(t, attempt_number, response) ==
    [NoException EXCEPT !.type = t, !.attempts = attempt_number,
                        !.llm_call_id = response.llm_call_id,
                        !.response = response.response]
SaveFaults == {"none", "save_raises", "current_missing"}

\* ------------------------------------------------- concurrent invocations
Threads == {1, 2}

\* The locals of one call of execute: `deliver` is what the call returns or
\* raises once its audit write is over, `outcome` what it did return or raise.
NoInvocation ==
    [pc |-> "idle", task_type |-> "None", user_prompt |-> InitialPrompt, llm_call_id |-> 0,
     attempt |-> 0, lastOutcome |-> NoResponse, record |-> NoRecord, uow |-> 0,
     auditWrites |-> 0, deliver |-> NoException, outcome |-> NoException]

\* SqlAlchemyLlmCallAuditUnitOfWork: the thread whose factory call made it,
\* its session, and the record its session holds uncommitted.
Unit(owner, session, pending) == [owner |-> owner, session |-> session, pending |-> pending]

\* One call of LLMRouter.execute as its caller sees it: the user prompt of the
\* request, the call id drawn for it, and once it has returned or raised the
\* type of the outcome and the output text the outcome carries.
Began(prompt, id) ==
    [user_prompt |-> prompt, llm_call_id |-> id, done |-> FALSE, outcome |-> "None",
     output_text |-> 0]
Refused(prompt, t) ==
    [user_prompt |-> prompt, llm_call_id |-> 0, done |-> TRUE, outcome |-> t,
     output_text |-> 0]
Ended(log, outcome) ==
    [log EXCEPT ![Len(log)] = [@ EXCEPT !.done = TRUE, !.outcome = outcome.type,
                                        !.output_text = outcome.response.output_text]]

\* ============================================== _parse_schema on its own
\* Output text is a sequence of tokens: "sp" a space, "nl" a line feed, "ls"
\* U+2028 (white space and a line boundary for str, an ordinary character for
\* JSON), "fence" three backticks, "json" and "JSON" that word, "c" another
\* letter, "open" the text {"answer":" and "close" the text "}.
MaxTextLen == 4
TextTokens == {"sp", "nl", "ls", "c", "open", "close"}
Whitespace == {"sp", "nl", "ls"}
LineBoundaries == {"nl", "ls"}
JsonWhitespace == {"sp", "nl"}

RECURSIVE lstripOf(_, _)
lstripOf(s, set) ==
    IF s # <<>> /\ Head(s) \in set THEN lstripOf(Tail(s), set) ELSE s

RECURSIVE rstripOf(_, _)
rstripOf(s, set) ==
    IF s # <<>> /\ s[Len(s)] \in set THEN rstripOf(SubSeq(s, 1, Len(s) - 1), set) ELSE s

\* str.strip()
strip(s) == rstripOf(lstripOf(s, Whitespace), Whitespace)

\* str.splitlines(): a line ends at every line boundary; no empty last line.
RECURSIVE SplitFrom(_, _, _)
SplitFrom(s, line, acc) ==
    IF s = <<>> THEN (IF line = <<>> THEN acc ELSE Append(acc, line))
    ELSE IF Head(s) \in LineBoundaries THEN SplitFrom(Tail(s), <<>>, Append(acc, line))
    ELSE SplitFrom(Tail(s), Append(line, Head(s)), acc)

splitlines(s) == SplitFrom(s, <<>>, <<>>)

\* "\n".join(lines)
RECURSIVE join(_)
join(lines) ==
    IF lines = <<>> THEN <<>>
    ELSE IF Len(lines) = 1 THEN lines[1]
    ELSE lines[1] \o <<"nl">> \o join(Tail(lines))

startswith(s, prefix) == Len(s) >= Len(prefix) /\ SubSeq(s, 1, Len(prefix)) = prefix

\* str.lower(): the pieces written in capitals.
LowerPiece(piece) ==
    CASE piece = "JSON" -> "json"
      [] piece = "OFF" -> "off"
      [] piece = "False" -> "false"
      [] OTHER -> piece

lower(s) == [i \in 1..Len(s) |-> LowerPiece(s[i])]

_strip_markdown_json_fence(value) ==
    LET stripped == strip(value)
        lines == splitlines(stripped)
    IN  IF ~startswith(stripped, <<"fence">>) THEN stripped
        ELSE IF Len(lines) < 3 THEN stripped
        ELSE LET first_line == lower(strip(lines[1]))
                 last_line == strip(lines[Len(lines)])
             IN  IF last_line # <<"fence">> THEN stripped
                 ELSE IF first_line # <<"fence">> /\ ~startswith(first_line, <<"fence", "json">>)
                 THEN stripped
                 ELSE strip(join(SubSeq(lines, 2, Len(lines) - 1)))

\* schema.model_validate_json for the schema {"answer": str}: JSON white
\* space, one object with one string, JSON white space; a line feed inside
\* the string is a control character and does not parse.
model_validate_json(text) ==
    LET t == rstripOf(lstripOf(text, JsonWhitespace), JsonWhitespace) IN
    IF /\ Len(t) >= 2
       /\ t[1] = "open"
       /\ t[Len(t)] = "close"
       /\ \A i \in 2..(Len(t) - 1) : t[i] \notin {"nl", "open", "close"}
    THEN [valid |-> TRUE, payload |-> SubSeq(t, 2, Len(t) - 1)]
    ELSE [valid |-> FALSE, payload |-> <<>>]

\* ============================================== _persist_audit on its own
\* The record built is kept in persistRecord whether or not it is committed.
\* A text of the audit record: its length and what it holds.
OUTPUT_TEXT_MAX_LENGTH == 16000
VALIDATION_ERRORS_MAX_LENGTH == 8000
TRUNCATION_SUFFIX_LENGTH == 14

AuditText(length, body) == [length |-> length, body |-> <<body>>]
\* None where a text, a length or a hash is expected.
NoText == [length |-> -1, body |-> <<>>]
NoLength == -1
NoHash == <<>>

_truncate_text(value, max_length) ==
    IF value.length <= max_length
    THEN value
    ELSE [length |-> max_length + TRUNCATION_SUFFIX_LENGTH,
          body |-> <<"first", max_length, "of">> \o value.body \o <<"...[truncated]">>]

\* os.environ.get(_STORE_LLM_OUTPUT_ENV_VAR, "1") on an environment where
\* the variable is set to a value or is not set.
STORE_OUTPUT_DEFAULT == <<"1">>
StoreOutputOffValues == {<<"0">>, <<"false">>, <<"no">>, <<"off">>}
Unset == [set |-> FALSE, value |-> <<>>]
SetTo(value) == [set |-> TRUE, value |-> value]
EnvValues == {Unset} \cup {SetTo(v) : v \in {<<"1">>, <<"0">>, <<"false">>, <<"False">>,
                                              <<"sp", "OFF", "sp">>, <<"no">>, <<"off">>,
                                              <<>>, <<"yes">>}}

_should_store_always(environ) == TRUE

_should_store_llm_output_payload(environ) ==
    LET raw_value == lower(strip(IF environ.set THEN environ.value ELSE STORE_OUTPUT_DEFAULT))
    IN  raw_value \notin StoreOutputOffValues

NoStoredRecord ==
    [status |-> "None", output_hash |-> NoHash, output_length |-> NoLength,
     output_text |-> NoText, validation_errors |-> NoText]

\* The LLMCallAuditRecord fields _persist_audit derives from the output.
StoredRecord(status, output_text, validation_errors, environ) ==
    LET store_payload == _should_store_llm_output_payload(environ) IN
    [status |-> status,
     output_hash |-> IF output_text # NoText THEN <<"sha256", output_text>> ELSE NoHash,
     output_length |-> IF output_text # NoText THEN output_text.length ELSE NoLength,
     output_text |-> IF output_text # NoText /\ store_payload
                     THEN _truncate_text(output_text, OUTPUT_TEXT_MAX_LENGTH) ELSE NoText,
     validation_errors |-> IF validation_errors # NoText /\ store_payload
                           THEN _truncate_text(validation_errors, VALIDATION_ERRORS_MAX_LENGTH)
                           ELSE NoText]

\* What execute hands to _persist_audit on each of its paths.
OutputTexts == {AuditText(0, "empty"), AuditText(5, "short"),
                AuditText(OUTPUT_TEXT_MAX_LENGTH, "full"),
                AuditText(OUTPUT_TEXT_MAX_LENGTH + 1, "long")}
ValidationTexts == {AuditText(5, "short"), AuditText(VALIDATION_ERRORS_MAX_LENGTH + 1, "long")}
PersistArguments ==
    {[status |-> "success", output_text |-> o, validation_errors |-> NoText] : o \in OutputTexts}
    \cup {[status |-> "schema_invalid", output_text |-> o, validation_errors |-> v] :
             o \in OutputTexts, v \in ValidationTexts}
    \cup {[status |-> "failed", output_text |-> NoText, validation_errors |-> NoText]}
AuditRuns == {1, 2}

\* ===================================== SqlAlchemyLlmCallAuditUnitOfWork
\* A session: whether it is open, the records added and not yet committed,
\* and the calls made on it in order.
MaxSessionCalls == 3
\* The with statements a caller runs one after the other, and the records
\* it saves.
WithBlocks == {1, 2}
RecordIds == {1, 2}
NewSession == [open |-> TRUE, pending |-> <<>>, log |-> <<>>]
Called(name, record) == [call |-> name, record |-> record]
SessionAdd(session, record) ==
    [session EXCEPT !.pending = Append(@, record), !.log = Append(@, Called("add", record))]
SessionCommit(session) ==
    [session EXCEPT !.pending = <<>>, !.log = Append(@, Called("commit", 0))]
SessionRollback(session) ==
    [session EXCEPT !.pending = <<>>, !.log = Append(@, Called("rollback", 0))]
SessionClose(session) ==
    [session EXCEPT !.open = FALSE, !.pending = <<>>, !.log = Append(@, Called("close", 0))]

\* The unit of work: _session and the session its repository is bound to,
\* 0 for None and for _UninitializedAuditRepository.
InactiveUow == [_session |-> 0, llm_calls |-> 0]

\* rollback(): a no-op without a session.
rollback(u, all) ==
    IF u._session # 0 THEN [all EXCEPT ![u._session] = SessionRollback(@)] ELSE all

\* The sessions after __exit__(exc_type, exc, traceback).
ExitSessions_close_only(u, all, exc) ==
    IF u._session # 0 THEN [all EXCEPT ![u._session] = SessionClose(@)] ELSE all

ExitSessions(u, all, exc) ==
    LET rolled == IF exc THEN rollback(u, all) ELSE all IN
    IF u._session # 0 THEN [rolled EXCEPT ![u._session] = SessionClose(@)] ELSE rolled

UowFaults == {"none", "db_error"}
UowCall(name, where, error) == [call |-> name, scope |-> where, error |-> error]
NOT_ACTIVE == "Unit of work is not active."

NoParse == [done |-> FALSE, output_text |-> <<>>, normalized_output |-> <<>>,
            valid |-> FALSE, payload |-> <<>>]

\* _parse_schema: the parsed payload or LLMResponseValidationError.
_parse_schema(output_text) ==
    LET normalized_output == _strip_markdown_json_fence(output_text)
        parsed == model_validate_json(normalized_output)
    IN  [done |-> TRUE, output_text |-> output_text, normalized_output |-> normalized_output,
         valid |-> parsed.valid, payload |-> parsed.payload]

\* A model's answer: text on its own, or the text between an opening and a
\* closing line.
JsonTexts == UNION {[1..n -> TextTokens] : n \in 0..MaxTextLen}
OpeningLines == {<<"fence">>, <<"fence", "json">>, <<"fence", "JSON">>,
                 <<"fence", "json", "c">>, <<"fence", "c">>}
ClosingLines == {<<"fence">>, <<"fence", "c">>}
Fenced(text, first, last) == first \o <<"nl">> \o text \o <<"nl">> \o last

VARIABLES
    status_code,       \* response.status_code of the latest HTTP response, 0 before any
    routes,            \* config.routes handed to LLMRouter(...)
    router,            \* "unbuilt", "built" (the object exists) or "failed"
    constructError,    \* what LLMRouter(...) raised
    executor,          \* "unbuilt", "built" (the RetryExecutor exists) or "failed"
    executorError,     \* what RetryExecutor(...) raised
    \* _parse_schema on its own
    json_text,         \* the JSON text the model answers with
    opening,           \* the line put before it
    closing,           \* the line put after it
    plainResult,       \* _parse_schema of the text on its own
    fencedResult,      \* _parse_schema of the text between the two lines
    \* _compute_prompt_hash on its own
    promptPairs,       \* call -> the (system prompt, user prompt) it is given
    promptHashes,      \* call -> what it returned, <<>> before
    \* _persist_audit on its own, run once under each of two environments
    persistArgs,       \* the arguments of the call
    persistFault,      \* where the unit of work fails
    environ,           \* run -> PRAKTIKUM_LLM_AUDIT_STORE_OUTPUT
    persistDone,       \* run -> "no", "returned" or "raised"
    persistRecord,     \* run -> the record handed to save_call
    persistTable,      \* run -> the rows committed to llm_calls
    \* the audit unit of work on its own
    uow,               \* _session and llm_calls of the unit of work
    sessions,          \* the sessions the factory has made
    uowTable,          \* the committed rows of llm_calls
    scope,             \* "outside" or "inside" the with statement
    scopes,            \* with statements entered so far
    uowLast,           \* the latest call: its name, where it was made, what it raised
    uowNext,           \* the next record to save
    policy,            \* RetryExecutor._policy
    providers,         \* LLMRouter._providers: the providers with a client
    pc,                \* position of the single caller
    \* RetryExecutor.run
    attempt,           \* attempt
    calls,             \* number of operation() calls in the current run
    sleeps,            \* delays handed to sleep in the current run
    lastOutcome,       \* outcome of the latest operation() call
    result,            \* value returned by RetryExecutor.run
    raised,            \* exception in flight
    \* LLMRouter.execute
    task_type,         \* request.task_type
    user_prompt,       \* request.user_prompt
    api_key,           \* what the key store returned ("unread" before)
    llm_call_id,       \* llm_call_id of the current invocation
    provider_response, \* provider_response
    auditWrites,       \* _persist_audit calls of the current invocation
    auditRecord,       \* record handed to the unit of work by the current invocation
    auditFault,        \* where that write failed
    routerOutcome,     \* what execute returned or raised
    nextUuid,          \* uuid4 source
    llm_calls,         \* committed rows of the llm_calls table
    generateCalls,     \* provider -> number of generate calls
    \* use cases
    useCase,           \* "none", "parse", "practice" or "direct"
    max_attempts,      \* command.max_repair_attempts + 1
    candidate_count,   \* command.candidate_count
    attempt_number,    \* attempt_number
    prompt_for_attempt,\* prompt_for_attempt
    routerLog,         \* outcome types of the router invocations of this execution
    invocations,       \* the execute calls of this execution, in the order they began
    \* execute called from several threads
    inv,               \* thread -> the locals of its call of execute
    units,             \* the units of work the audit factory has handed out
    savedBatch,        \* batch handed to save_generated_batch and committed
    useCaseResult,     \* what the use case returned or raised
    correlation_id,    \* correlation_id of the use case execution, <<>> before
    requests           \* the LLMRequest objects handed to execute, in order

retryVars == <<attempt, calls, sleeps, lastOutcome, result, raised>>
routerVars == <<task_type, user_prompt, api_key, llm_call_id, provider_response, auditWrites,
                auditRecord, auditFault, routerOutcome, nextUuid, llm_calls, generateCalls>>
useCaseVars == <<useCase, max_attempts, candidate_count, attempt_number, prompt_for_attempt,
                 savedBatch, useCaseResult>>
parseVars == <<json_text, opening, closing, plainResult, fencedResult>>
hashVars == <<promptPairs, promptHashes>>
persistVars == <<persistArgs, persistFault, environ, persistDone, persistRecord, persistTable>>
uowVars == <<uow, sessions, uowTable, scope, scopes, uowLast, uowNext>>
standaloneVars == <<parseVars, hashVars, persistVars, uowVars>>
requestVars == <<correlation_id, requests>>
configVars == <<routes, router, constructError, executor, executorError>>
concVars == <<inv, units>>
vars == <<status_code, configVars, concVars, standaloneVars, requestVars, policy, providers, pc, retryVars, routerVars, useCaseVars,
          routerLog, invocations>>

InitRest ==
    /\ status_code = 0
    /\ pc = "idle"
    /\ attempt = 0
    /\ calls = 0
    /\ sleeps = <<>>
    /\ lastOutcome = NoResponse
    /\ result = NoResponse
    /\ raised = NoException
    /\ task_type = "None"
    /\ user_prompt = InitialPrompt
    /\ api_key = "unread"
    /\ llm_call_id = 0
    /\ provider_response = NoResponse
    /\ auditWrites = 0
    /\ auditRecord = NoRecord
    /\ auditFault = "none"
    /\ routerOutcome = NoException
    /\ nextUuid = 1
    /\ llm_calls = <<>>
    /\ generateCalls = [p \in Providers |-> 0]
    /\ useCase = "none"
    /\ max_attempts = 0
    /\ candidate_count = 0
    /\ attempt_number = 0
    /\ prompt_for_attempt = InitialPrompt
    /\ routerLog = <<>>
    /\ invocations = <<>>
    /\ inv = [t \in Threads |-> NoInvocation]
    /\ units = <<>>
    /\ savedBatch = NoBatch
    /\ useCaseResult = NoException
    /\ correlation_id = <<>>
    /\ requests = <<>>

\* A constructed router: validated default routes, any registration of
\* provider clients, an executor built from the configured policy.
ParseIdle ==
    /\ json_text = <<>>
    /\ opening = <<"fence">>
    /\ closing = <<"fence">>
    /\ plainResult = NoParse
    /\ fencedResult = NoParse

HashCalls == {1, 2}
NoPair == [system_prompt |-> <<>>, user_prompt |-> <<>>]
HashIdle ==
    /\ promptPairs = [k \in HashCalls |-> NoPair]
    /\ promptHashes = [k \in HashCalls |-> <<>>]

PersistIdle ==
    /\ persistArgs = [status |-> "failed", output_text |-> NoText, validation_errors |-> NoText]
    /\ persistFault = "none"
    /\ environ = [k \in AuditRuns |-> Unset]
    /\ persistDone = [k \in AuditRuns |-> "no"]
    /\ persistRecord = [k \in AuditRuns |-> NoStoredRecord]
    /\ persistTable = [k \in AuditRuns |-> <<>>]

\* SqlAlchemyLlmCallAuditUnitOfWork.__init__
UowIdle ==
    /\ uow = InactiveUow
    /\ sessions = <<>>
    /\ uowTable = <<>>
    /\ scope = "outside"
    /\ scopes = 0
    /\ uowLast = UowCall("None", "outside", "None")
    /\ uowNext = 1

InitStandalone == ParseIdle /\ HashIdle /\ PersistIdle /\ UowIdle

Built ==
    /\ routes = [t \in TaskTypes |-> default_routes(t)]
    /\ router = "built"
    /\ constructError = NoException
    /\ executor = "built"
    /\ executorError = NoException

Init ==
    /\ Built
    /\ policy \in RouterPolicies
    /\ providers \in SUBSET Providers
    /\ InitRest
    /\ InitStandalone

\* A constructed executor on its own, with any accepted policy.
InitRetry ==
    /\ Built
    /\ policy \in Policies
    /\ providers = Providers
    /\ InitRest
    /\ InitStandalone

\* Before LLMRouter(...) is called with a route map of the caller's choice.
InitConfig ==
    /\ routes \in RouteTables
    /\ router = "unbuilt"
    /\ constructError = NoException
    /\ executor = "built"
    /\ executorError = NoException
    /\ policy \in RouterPolicies
    /\ providers = Providers
    /\ InitRest
    /\ InitStandalone

\* ====================================================== LLMRouter.__init__
\* validate_routing_policy runs before any attribute is set; when it raises,
\* the constructor call yields no object.
Construct ==
    /\ router = "unbuilt"
    /\ LET verdict == validate_routing_policy(routes) IN
       IF verdict = "ok"
       THEN /\ router' = "built"
            /\ UNCHANGED constructError
       ELSE /\ router' = "failed"
            /\ constructError' = Exc("LLMConfigurationError", verdict)
    /\ UNCHANGED <<status_code, concVars, standaloneVars, requestVars, routes, executor, executorError, policy, providers, pc,
                   retryVars, routerVars, useCaseVars, routerLog, invocations>>

\* ========================================================== RetryExecutor
\* Entry of RetryExecutor.run: attempt = 1.
RunEntry ==
    /\ attempt' = 1
    /\ calls' = 0
    /\ sleeps' = <<>>
    /\ lastOutcome' = NoResponse
    /\ result' = NoResponse
    /\ raised' = NoException

\* One pass of the while loop of RetryExecutor.run with operation() giving o.
RunIteration(o) ==
    /\ pc = "run"
    /\ calls' = calls + 1
    /\ lastOutcome' = o
    /\ IF o.type = "ProviderCallResponse"
       THEN /\ result' = o
            /\ pc' = "returned"
            /\ UNCHANGED <<attempt, sleeps, raised>>
       ELSE IF ~is_retryable_llm_error(o.type)
       THEN /\ raised' = Exc(o.type, o.detail)
            /\ pc' = "raised"
            /\ UNCHANGED <<attempt, sleeps, result>>
       ELSE IF BudgetExhausted(policy, attempt)
       THEN /\ raised' = [ExcFrom("LLMRetryExhaustedError", "exhausted", o.type)
                             EXCEPT !.attempts = attempt]
            /\ pc' = "raised"
            /\ UNCHANGED <<attempt, sleeps, result>>
       ELSE /\ sleeps' = Append(sleeps, delay_seconds(policy, attempt))
            /\ attempt' = attempt + 1
            /\ pc' = "run"
            /\ UNCHANGED <<result, raised>>

\* RetryExecutor.__init__: the floors are checked before any attribute is
\* set; when one raises, the constructor call yields no object.
RetryExecutorInit ==
    /\ executor = "unbuilt"
    /\ LET verdict == PolicyCheck(policy) IN
       IF verdict = "None"
       THEN /\ executor' = "built"
            /\ UNCHANGED executorError
       ELSE /\ executor' = "failed"
            /\ executorError' = Exc("ValueError", verdict)
    /\ UNCHANGED <<status_code, concVars, standaloneVars, requestVars, routes, router, constructError, policy, providers, pc,
                   retryVars, routerVars, useCaseVars, routerLog, invocations>>

\* A caller runs an operation under the executor on its own.
RunStart ==
    /\ pc = "idle"
    /\ executor = "built"
    /\ RunEntry
    /\ pc' = "run"
    /\ UNCHANGED <<status_code, concVars, standaloneVars, requestVars, configVars, policy, providers, routerVars, useCaseVars, routerLog, invocations>>

Operation(o) ==
    /\ useCase = "none"
    /\ RunIteration(o)
    /\ UNCHANGED <<status_code, concVars, standaloneVars, requestVars, configVars, policy, providers, routerVars, useCaseVars, routerLog, invocations>>

\* The operation is a transport client's generate, which receives an HTTP
\* response of the given status and body.
HttpOperation(code, body) ==
    /\ useCase = "none"
    /\ RunIteration(GenerateOutcome(code, body))
    /\ status_code' = code
    /\ UNCHANGED <<concVars, standaloneVars, requestVars, configVars, policy, providers, routerVars, useCaseVars,
                   routerLog, invocations>>

\* ============================================================== LLMRouter
\* What provider.generate can produce for a request of task type t; only a
\* practice generation payload holds a list of candidates.
ProviderOutcomes(t) ==
    {o \in OperationOutcomes : t # "practice_gen" => o.candidates <= 1}

RunIdle ==
    /\ attempt' = 0
    /\ calls' = 0
    /\ sleeps' = <<>>
    /\ lastOutcome' = NoResponse
    /\ result' = NoResponse
    /\ raised' = NoException

\* The LLMRequest a caller builds: temperatures in tenths.
MAX_OUTPUT_TOKENS == 4096
PARSE_TEMPERATURE == 1
PRACTICE_TEMPERATURE == 3
DEFAULT_MAX_OUTPUT_TOKENS == 2048
DEFAULT_TEMPERATURE == 2
LLMRequest(task, system, user, schema, correlation, course, module, tokens, temperature) ==
    [task_type |-> task, system_prompt |-> system, user_prompt |-> user,
     response_schema |-> schema, correlation_id |-> correlation, course_id |-> course,
     module_id |-> module, max_output_tokens |-> tokens, temperature |-> temperature]

BuildRequest_fresh_correlation(uc, prompt, correlation) ==
    LLMRequest(task_type, SystemPrompt, prompt, "response_schema",
               <<"uuid4", attempt_number>>, "course_id", "None", MAX_OUTPUT_TOKENS, PARSE_TEMPERATURE)

\* The request of one pass of the loop of use case uc, or a direct caller's.
BuildRequest(uc, prompt, correlation) ==
    CASE uc = "parse" ->
            LLMRequest("course_parse", SystemPrompt, prompt, "response_schema", correlation,
                       "course_id", "None", MAX_OUTPUT_TOKENS, PARSE_TEMPERATURE)
      [] uc = "practice" ->
            LLMRequest("practice_gen", SystemPrompt, prompt, "response_schema", correlation,
                       "course_id", "module_id", MAX_OUTPUT_TOKENS, PRACTICE_TEMPERATURE)
      [] OTHER ->
            LLMRequest(task_type, SystemPrompt, prompt, "response_schema", correlation,
                       "None", "None", DEFAULT_MAX_OUTPUT_TOKENS, DEFAULT_TEMPERATURE)

\* uuid4() for the correlation id of a use case execution.
NewCorrelationId == <<"uuid4", 0>>

\* execute up to the try statement: route, provider client, credential,
\* call id.
ExecuteEnter(key) ==
    /\ pc = "call_router"
    /\ router = "built"
    /\ requests' = Append(requests, BuildRequest(useCase, prompt_for_attempt, correlation_id))
    /\ user_prompt' = prompt_for_attempt
    /\ provider_response' = NoResponse
    /\ auditWrites' = 0
    /\ auditRecord' = NoRecord
    /\ auditFault' = "none"
    /\ LET route == _resolve_route(routes, task_type) IN
       IF route = NoRoute
       THEN /\ routerOutcome' = Exc("LLMConfigurationError", "route_not_configured")
            /\ pc' = "router_done"
            /\ routerLog' = Append(routerLog, "LLMConfigurationError")
            /\ invocations' = Append(invocations, Refused(prompt_for_attempt, "LLMConfigurationError"))
            /\ api_key' = "unread"
            /\ llm_call_id' = 0
            /\ RunIdle
            /\ UNCHANGED nextUuid
       ELSE IF route.provider \notin providers
       THEN /\ routerOutcome' = Exc("LLMConfigurationError", "provider_not_configured")
            /\ pc' = "router_done"
            /\ routerLog' = Append(routerLog, "LLMConfigurationError")
            /\ invocations' = Append(invocations, Refused(prompt_for_attempt, "LLMConfigurationError"))
            /\ api_key' = "unread"
            /\ llm_call_id' = 0
            /\ RunIdle
            /\ UNCHANGED nextUuid
       ELSE /\ api_key' = key
            /\ IF KeyMissing(key)
               THEN /\ routerOutcome' = Exc("MissingApiKeyError", "missing_api_key")
                    /\ pc' = "router_done"
                    /\ routerLog' = Append(routerLog, "MissingApiKeyError")
                    /\ invocations' = Append(invocations, Refused(prompt_for_attempt, "MissingApiKeyError"))
                    /\ llm_call_id' = 0
                    /\ RunIdle
                    /\ UNCHANGED nextUuid
               ELSE /\ llm_call_id' = nextUuid
                    /\ nextUuid' = nextUuid + 1
                    /\ routerOutcome' = NoException
                    /\ RunEntry
                    /\ pc' = "run"
                    /\ invocations' = Append(invocations, Began(prompt_for_attempt, nextUuid))
                    /\ UNCHANGED routerLog
    /\ UNCHANGED <<status_code, concVars, standaloneVars, correlation_id, configVars, policy, providers, task_type, llm_calls, generateCalls, useCaseVars>>

\* One pass of the retry loop with provider.generate as the operation; an
\* invocation gets at most one response, so the call id identifies its
\* output text.
Generate(o) ==
    /\ useCase # "none"
    /\ LET tagged == IF o.type = "ProviderCallResponse"
                     THEN [o EXCEPT !.output_text = llm_call_id] ELSE o
       IN RunIteration(tagged)
    /\ generateCalls' =
          [generateCalls EXCEPT ![_resolve_route(routes, task_type).provider] = @ + 1]
    /\ UNCHANGED <<status_code, concVars, standaloneVars, requestVars, configVars, policy, providers, task_type, user_prompt, api_key, llm_call_id,
                   provider_response, auditWrites, auditRecord, auditFault, routerOutcome,
                   nextUuid, llm_calls, useCaseVars, routerLog, invocations>>

ParseSchema_inside_run ==
    /\ pc = "returned"
    /\ useCase # "none"
    /\ IF result.valid
       THEN /\ provider_response' = result
            /\ pc' = "success"
            /\ UNCHANGED <<raised, attempt>>
       ELSE IF BudgetExhausted(policy, attempt)
       THEN /\ provider_response' = result
            /\ raised' = [Exc("LLMResponseValidationError", "schema_validation_failed")
                             EXCEPT !.llm_call_id = llm_call_id, !.response = result]
            /\ pc' = "raised"
            /\ UNCHANGED attempt
       ELSE /\ attempt' = attempt + 1
            /\ pc' = "run"
            /\ UNCHANGED <<provider_response, raised>>
    /\ UNCHANGED <<status_code, concVars, standaloneVars, requestVars, configVars, policy, providers, calls, sleeps, lastOutcome, result,
                   task_type, user_prompt, api_key, llm_call_id, auditWrites, auditRecord,
                   auditFault, routerOutcome, nextUuid, llm_calls, generateCalls,
                   useCaseVars, routerLog, invocations>>

\* The rest of the try body: provider_response is bound, _parse_schema runs.
ParseSchema ==
    /\ pc = "returned"
    /\ useCase # "none"
    /\ provider_response' = result
    /\ IF result.valid
       THEN /\ pc' = "success"
            /\ UNCHANGED raised
       ELSE /\ raised' = [Exc("LLMResponseValidationError", "schema_validation_failed")
                             EXCEPT !.llm_call_id = llm_call_id, !.response = result]
            /\ pc' = "raised"
    /\ UNCHANGED <<status_code, concVars, standaloneVars, requestVars, configVars, policy, providers, attempt, calls, sleeps, lastOutcome, result,
                   task_type, user_prompt, api_key, llm_call_id, auditWrites, auditRecord,
                   auditFault, routerOutcome, nextUuid, llm_calls, generateCalls,
                   useCaseVars, routerLog, invocations>>

\* _persist_audit: build the record, write it through a unit of work of its
\* own; the row is durable only when acquisition, save_call and commit all
\* succeed.
PersistAudit(status, text, fault) ==
    LET route == _resolve_route(routes, task_type)
        record == AuditRecord(llm_call_id, task_type, route,
                              _compute_prompt_hash(SystemPrompt, <<user_prompt>>), status, text)
    IN /\ auditWrites' = auditWrites + 1
       /\ auditRecord' = record
       /\ auditFault' = fault
       /\ llm_calls' = IF fault = "none" THEN Append(llm_calls, record) ELSE llm_calls

\* Whether the failure of the unit of work leaves _persist_audit.
AuditEscapes(fault) == fault # "none" /\ ~AuditCatches("AuditStoreError")

\* The except clauses of execute: audit, log, raise.
HandleException(fault) ==
    /\ pc = "raised"
    /\ useCase # "none"
    /\ LET clause == ExceptClause(raised.type) IN
       IF clause = "unhandled"
       THEN /\ routerOutcome' = raised
            /\ UNCHANGED <<auditWrites, auditRecord, auditFault, llm_calls>>
       ELSE /\ PersistAudit(ClauseStatus(clause),
                            IF clause = "validation" THEN raised.response.output_text
                            ELSE provider_response.output_text,
                            fault)
            /\ routerOutcome' = IF AuditEscapes(fault)
                                THEN Exc("AuditStoreError", "audit_store")
                                ELSE ClauseRaises(clause, raised,
                                        _resolve_route(routes, task_type).provider)
    /\ pc' = "router_done"
    /\ routerLog' = Append(routerLog, routerOutcome'.type)
    /\ invocations' = Ended(invocations, routerOutcome')
    /\ UNCHANGED <<status_code, concVars, standaloneVars, requestVars, configVars, policy, providers, retryVars, task_type, user_prompt, api_key,
                   llm_call_id, provider_response, nextUuid, generateCalls, useCaseVars>>

\* After the try statement: audit the success, return the LLMResponse.
PersistSuccess(fault) ==
    /\ pc = "success"
    /\ PersistAudit("success", provider_response.output_text, fault)
    /\ routerOutcome' = IF AuditEscapes(fault)
                        THEN Exc("AuditStoreError", "audit_store")
                        ELSE [NoException EXCEPT !.type = "LLMResponse",
                                                 !.llm_call_id = llm_call_id,
                                                 !.provider =
                                                    _resolve_route(routes, task_type).provider,
                                                 !.response = provider_response]
    /\ pc' = "router_done"
    /\ routerLog' = Append(routerLog, routerOutcome'.type)
    /\ invocations' = Ended(invocations, routerOutcome')
    /\ UNCHANGED <<status_code, concVars, standaloneVars, requestVars, configVars, policy, providers, retryVars, task_type, user_prompt, api_key,
                   llm_call_id, provider_response, nextUuid, generateCalls, useCaseVars>>

\* A caller other than the two use cases invokes execute once.
DirectCall(t) ==
    /\ pc = "idle"
    /\ router = "built"
    /\ useCase' = "direct"
    /\ task_type' = t
    /\ pc' = "call_router"
    /\ UNCHANGED <<status_code, concVars, standaloneVars, requestVars, configVars, policy, providers, retryVars, user_prompt, api_key, llm_call_id,
                   provider_response, auditWrites, auditRecord, auditFault, routerOutcome,
                   nextUuid, llm_calls, generateCalls, max_attempts, candidate_count,
                   attempt_number, prompt_for_attempt, savedBatch, useCaseResult, routerLog, invocations>>

DirectReturn ==
    /\ pc = "router_done"
    /\ useCase = "direct"
    /\ useCaseResult' = routerOutcome
    /\ pc' = "finished"
    /\ UNCHANGED <<status_code, concVars, standaloneVars, requestVars, configVars, policy, providers, retryVars, routerVars, useCase, max_attempts,
                   candidate_count, attempt_number, prompt_for_attempt, savedBatch, routerLog, invocations>>

\* ============================================================== use cases
\* The end of one pass of `for attempt_index in range(max_attempts)` reached
\* by `continue`: the next pass, or the statement after the loop.
LoopContinue_stale(nextPrompt) ==
    IF attempt_number < max_attempts
    THEN /\ attempt_number' = attempt_number + 1
         /\ prompt_for_attempt' =
               (IF prompt_for_attempt.kind = "repair" THEN prompt_for_attempt ELSE nextPrompt)
         /\ pc' = "call_router"
         /\ UNCHANGED useCaseResult
    ELSE /\ useCaseResult' = Exc("AssertionError", "unreachable_loop_termination")
         /\ prompt_for_attempt' = nextPrompt
         /\ pc' = "finished"
         /\ UNCHANGED attempt_number
LoopContinue(nextPrompt) ==
    IF attempt_number < max_attempts
    THEN /\ attempt_number' = attempt_number + 1
         /\ prompt_for_attempt' = nextPrompt
         /\ pc' = "call_router"
         /\ UNCHANGED useCaseResult
    ELSE /\ useCaseResult' = Exc("AssertionError", "unreachable_loop_termination")
         /\ prompt_for_attempt' = nextPrompt
         /\ pc' = "finished"
         /\ UNCHANGED attempt_number

\* The except clauses shared by both use cases; clause "response" is left
\* to the caller.
FailWith(msg, cause) ==
    /\ useCaseResult' = ExcFrom("ValueError", msg, cause)
    /\ pc' = "finished"
    /\ UNCHANGED <<attempt_number, prompt_for_attempt>>

HandleRouterError(clause, invalidMsg) ==
    CASE clause = "missing_key" -> FailWith("missing_api_key_open_keys_dialog", routerOutcome.type)
      [] clause = "rejected" -> FailWith(routerOutcome.message, routerOutcome.type)
      [] clause = "temporary" -> FailWith(routerOutcome.message, routerOutcome.type)
      [] clause = "schema" ->
            IF RepairExhausted(attempt_number, max_attempts)
            THEN FailWith(invalidMsg, routerOutcome.type)
            ELSE LoopContinue(RepairPrompt(routerOutcome.response.output_text, "schema"))
      [] OTHER ->
            /\ useCaseResult' = routerOutcome
            /\ pc' = "finished"
            /\ UNCHANGED <<attempt_number, prompt_for_attempt>>

\* ParseCourseUseCase.execute up to the loop.
ParseCourseStart(idGiven, repairs, found) ==
    /\ pc = "idle"
    /\ router = "built"
    /\ useCase' = "parse"
    /\ task_type' = "course_parse"
    /\ IF ~idGiven
       THEN /\ useCaseResult' = Exc("ValueError", "course_id_required")
            /\ pc' = "finished"
            /\ UNCHANGED <<max_attempts, attempt_number>>
       ELSE IF repairs < 0
       THEN /\ useCaseResult' = Exc("ValueError", "max_repair_attempts_negative")
            /\ pc' = "finished"
            /\ UNCHANGED <<max_attempts, attempt_number>>
       ELSE IF ~found
       THEN /\ useCaseResult' = Exc("ValueError", "raw_text_not_found")
            /\ pc' = "finished"
            /\ UNCHANGED <<max_attempts, attempt_number>>
       ELSE /\ max_attempts' = repairs + 1
            /\ attempt_number' = 1
            /\ pc' = "call_router"
            /\ UNCHANGED useCaseResult
    /\ correlation_id' = IF idGiven /\ repairs >= 0 THEN NewCorrelationId ELSE correlation_id
    /\ UNCHANGED <<status_code, concVars, standaloneVars, requests, configVars, policy, providers, retryVars, user_prompt, api_key, llm_call_id,
                   provider_response, auditWrites, auditRecord, auditFault, routerOutcome,
                   nextUuid, llm_calls, generateCalls, candidate_count,
                   prompt_for_attempt, savedBatch, routerLog, invocations>>

\* ParseCourseUseCase.execute after the router call of one pass.
ParseCourseHandle ==
    /\ pc = "router_done"
    /\ useCase = "parse"
    /\ LET clause == UseCaseClause(routerOutcome.type) IN
       IF clause = "response"
       THEN /\ useCaseResult' = LoopResult("ParseCourseResult", attempt_number, routerOutcome)
            /\ pc' = "finished"
            /\ UNCHANGED <<attempt_number, prompt_for_attempt>>
       ELSE HandleRouterError(clause, "could_not_produce_valid_course_plan")
    /\ UNCHANGED <<status_code, concVars, standaloneVars, requestVars, configVars, policy, providers, retryVars, routerVars, useCase, max_attempts,
                   candidate_count, savedBatch, routerLog, invocations>>

\* GeneratePracticeUseCase.execute up to the loop.
GeneratePracticeStart(idGiven, count, repairs, found) ==
    /\ pc = "idle"
    /\ router = "built"
    /\ useCase' = "practice"
    /\ task_type' = "practice_gen"
    /\ IF ~idGiven
       THEN /\ useCaseResult' = Exc("ValueError", "module_id_required")
            /\ pc' = "finished"
            /\ UNCHANGED <<max_attempts, attempt_number, candidate_count>>
       ELSE IF count < 1
       THEN /\ useCaseResult' = Exc("ValueError", "candidate_count_below_one")
            /\ pc' = "finished"
            /\ UNCHANGED <<max_attempts, attempt_number, candidate_count>>
       ELSE IF repairs < 0
       THEN /\ useCaseResult' = Exc("ValueError", "max_repair_attempts_negative")
            /\ pc' = "finished"
            /\ UNCHANGED <<max_attempts, attempt_number, candidate_count>>
       ELSE IF ~found
       THEN /\ useCaseResult' = Exc("ValueError", "module_not_found")
            /\ pc' = "finished"
            /\ UNCHANGED <<max_attempts, attempt_number, candidate_count>>
       ELSE /\ max_attempts' = repairs + 1
            /\ candidate_count' = count
            /\ attempt_number' = 1
            /\ pc' = "call_router"
            /\ UNCHANGED useCaseResult
    /\ correlation_id' = IF idGiven /\ count >= 1 /\ repairs >= 0 THEN NewCorrelationId ELSE correlation_id
    /\ UNCHANGED <<status_code, concVars, standaloneVars, requests, configVars, policy, providers, retryVars, user_prompt, api_key, llm_call_id,
                   provider_response, auditWrites, auditRecord, auditFault, routerOutcome,
                   nextUuid, llm_calls, generateCalls, prompt_for_attempt, savedBatch,
                   routerLog, invocations>>

\* GeneratePracticeUseCase.execute after the router call of one pass.
GeneratePracticeHandle(saveFault) ==
    /\ pc = "router_done"
    /\ useCase = "practice"
    /\ LET clause == UseCaseClause(routerOutcome.type)
           built == _build_candidate_drafts(routerOutcome.response.candidates, candidate_count)
       IN
       IF clause # "response"
       THEN /\ HandleRouterError(clause, "could_not_produce_valid_practice_task")
            /\ UNCHANGED savedBatch
       ELSE IF ~built.ok
       THEN /\ IF RepairExhausted(attempt_number, max_attempts)
               THEN /\ useCaseResult' = Exc("ValueError", "insufficient_candidates")
                    /\ pc' = "finished"
                    /\ UNCHANGED <<attempt_number, prompt_for_attempt>>
               ELSE LoopContinue(RepairPrompt(routerOutcome.response.output_text, "shortfall"))
            /\ UNCHANGED savedBatch
       ELSE IF saveFault = "save_raises"
       THEN /\ useCaseResult' = Exc("PersistError", "persist_failed")
            /\ pc' = "finished"
            /\ UNCHANGED <<attempt_number, prompt_for_attempt, savedBatch>>
       ELSE /\ savedBatch' = [llm_call_id |-> routerOutcome.llm_call_id,
                              candidates |-> built.drafts]
            /\ useCaseResult' =
                  IF saveFault = "current_missing"
                  THEN Exc("RuntimeError", "persisted_task_missing")
                  ELSE LoopResult("GeneratePracticeResult", attempt_number, routerOutcome)
            /\ pc' = "finished"
            /\ UNCHANGED <<attempt_number, prompt_for_attempt>>
    /\ UNCHANGED <<status_code, concVars, standaloneVars, requestVars, configVars, policy, providers, retryVars, routerVars, useCase, max_attempts,
                   candidate_count, routerLog, invocations>>

Next ==
    \/ \E t \in TaskTypes : DirectCall(t)
    \/ \E idGiven \in BOOLEAN, repairs \in -1..MaxRepairAttempts, found \in BOOLEAN :
          ParseCourseStart(idGiven, repairs, found)
    \/ \E idGiven \in BOOLEAN, count \in 0..MaxCandidates,
          repairs \in -1..MaxRepairAttempts, found \in BOOLEAN :
          GeneratePracticeStart(idGiven, count, repairs, found)
    \/ \E key \in KeyValues : ExecuteEnter(key)
    \/ \E o \in ProviderOutcomes(task_type) : Generate(o)
    \/ ParseSchema
    \/ \E fault \in AuditFaults : HandleException(fault)
    \/ \E fault \in AuditFaults : PersistSuccess(fault)
    \/ DirectReturn
    \/ ParseCourseHandle
    \/ \E saveFault \in SaveFaults : GeneratePracticeHandle(saveFault)

Spec == Init /\ [][Next]_vars

NextRetry ==
    \/ RunStart
    \/ \E o \in OperationOutcomes : Operation(o)

SpecRetry == InitRetry /\ [][NextRetry]_vars

\* Before RetryExecutor(...) is called with a policy of the caller's choice.
InitExecutor ==
    /\ routes = [t \in TaskTypes |-> default_routes(t)]
    /\ router = "built"
    /\ constructError = NoException
    /\ executor = "unbuilt"
    /\ executorError = NoException
    /\ policy \in CandidatePolicies
    /\ providers = Providers
    /\ InitRest
    /\ InitStandalone

\* The variables of the router, its executor and the use cases.
programVars == <<status_code, configVars, concVars, requestVars, policy, providers, pc, retryVars,
                 routerVars, useCaseVars, routerLog, invocations>>

NextExecutor == RetryExecutorInit \/ NextRetry

SpecExecutor == InitExecutor /\ [][NextExecutor]_vars

\* ------------------------------------------------ _parse_schema on its own
InitParse ==
    /\ Built
    /\ policy = DefaultPolicy
    /\ providers = Providers
    /\ InitRest
    /\ json_text \in JsonTexts
    /\ opening \in OpeningLines
    /\ closing \in ClosingLines
    /\ plainResult = NoParse
    /\ fencedResult = NoParse
    /\ HashIdle
    /\ PersistIdle
    /\ UowIdle

\* The provider returned the text on its own.
ParsePlain ==
    /\ ~plainResult.done
    /\ plainResult' = _parse_schema(json_text)
    /\ UNCHANGED <<programVars, hashVars, persistVars, uowVars, json_text, opening, closing,
                   fencedResult>>

\* The provider returned the text between the two lines.
ParseFenced ==
    /\ ~fencedResult.done
    /\ fencedResult' = _parse_schema(Fenced(json_text, opening, closing))
    /\ UNCHANGED <<programVars, hashVars, persistVars, uowVars, json_text, opening, closing,
                   plainResult>>

NextParse == ParsePlain \/ ParseFenced

SpecParse == InitParse /\ [][NextParse]_vars

\* ----------------------------------------- _compute_prompt_hash on its own
MaxPromptLen == 2
PromptPieces == {"a", "---"}
PromptTexts == UNION {[1..n -> PromptPieces] : n \in 0..MaxPromptLen}

InitHash ==
    /\ Built
    /\ policy = DefaultPolicy
    /\ providers = Providers
    /\ InitRest
    /\ ParseIdle
    /\ PersistIdle
    /\ UowIdle
    /\ promptPairs \in [HashCalls -> [system_prompt : PromptTexts, user_prompt : PromptTexts]]
    /\ promptHashes = [k \in HashCalls |-> <<>>]

\* Call k of _compute_prompt_hash; a call may be made again.
ComputePromptHash(k) ==
    /\ promptHashes' = [promptHashes EXCEPT
           ![k] = _compute_prompt_hash(promptPairs[k].system_prompt, promptPairs[k].user_prompt)]
    /\ UNCHANGED <<programVars, parseVars, persistVars, uowVars, promptPairs>>

NextHash == \E k \in HashCalls : ComputePromptHash(k)

SpecHash == InitHash /\ [][NextHash]_vars

\* ----------------------------------------------- _persist_audit on its own
\* One call of _persist_audit, made under two environments.
InitPersist ==
    /\ Built
    /\ policy = DefaultPolicy
    /\ providers = Providers
    /\ InitRest
    /\ ParseIdle
    /\ HashIdle
    /\ UowIdle
    /\ persistArgs \in PersistArguments
    /\ persistFault \in AuditFaults
    /\ environ \in [AuditRuns -> EnvValues]
    /\ persistDone = [k \in AuditRuns |-> "no"]
    /\ persistRecord = [k \in AuditRuns |-> NoStoredRecord]
    /\ persistTable = [k \in AuditRuns |-> <<>>]

\* _persist_audit in run k: the record is built, handed to the unit of
\* work, and a failure of the unit of work is logged and swallowed.
PersistAuditRun(k) ==
    /\ persistDone[k] = "no"
    /\ LET record == StoredRecord(persistArgs.status, persistArgs.output_text,
                                  persistArgs.validation_errors, environ[k])
       IN /\ persistRecord' = [persistRecord EXCEPT ![k] = record]
          /\ persistTable' = [persistTable EXCEPT
                 ![k] = IF persistFault = "none" THEN Append(@, record) ELSE @]
    /\ persistDone' = [persistDone EXCEPT
           ![k] = IF persistFault = "none" \/ AuditCatches("AuditStoreError")
                  THEN "returned" ELSE "raised"]
    /\ UNCHANGED <<programVars, parseVars, hashVars, uowVars, persistArgs, persistFault, environ>>

NextPersist == \E k \in AuditRuns : PersistAuditRun(k)

SpecPersist == InitPersist /\ [][NextPersist]_vars

\* --------------------------------------- the audit unit of work on its own
InitUow ==
    /\ Built
    /\ policy = DefaultPolicy
    /\ providers = Providers
    /\ InitRest
    /\ InitStandalone

otherThanUow == <<programVars, parseVars, hashVars, persistVars>>

\* An exception leaves the with block: __exit__ with the exception.
ExitRaising(name, error) ==
    /\ sessions' = ExitSessions(uow, sessions, TRUE)
    /\ uow' = InactiveUow
    /\ scope' = "outside"
    /\ uowLast' = UowCall(name, scope, error)

\* `with factory() as uow:` __enter__ makes a session and a repository on it.
UowEnter(fault) ==
    /\ scope = "outside"
    /\ scopes + 1 \in WithBlocks
    /\ scopes' = scopes + 1
    /\ uowLast' = UowCall("__enter__", scope, IF fault = "none" THEN "None" ELSE fault)
    /\ IF fault = "none"
       THEN /\ sessions' = Append(sessions, NewSession)
            /\ uow' = [_session |-> Len(sessions) + 1, llm_calls |-> Len(sessions) + 1]
            /\ scope' = "inside"
       ELSE UNCHANGED <<sessions, uow, scope>>
    /\ UNCHANGED <<otherThanUow, uowTable, uowNext>>

\* uow.llm_calls.save_call(record), inside the with block or not.
UowSaveCall(fault) ==
    /\ uowNext \in RecordIds
    /\ uowNext' = uowNext + 1
    /\ IF uow.llm_calls = 0
       THEN /\ uowLast' = UowCall("save_call", scope, NOT_ACTIVE)
            /\ UNCHANGED <<sessions, uow, scope>>
       ELSE IF fault = "none"
       THEN /\ sessions' = [sessions EXCEPT ![uow.llm_calls] = SessionAdd(@, uowNext)]
            /\ uowLast' = UowCall("save_call", scope, "None")
            /\ UNCHANGED <<uow, scope>>
       ELSE ExitRaising("save_call", fault)
    /\ UNCHANGED <<otherThanUow, uowTable, scopes>>

\* uow.commit(), inside the with block or not.
UowCommit(fault) ==
    /\ uow._session # 0 => Len(sessions[uow._session].log) < MaxSessionCalls
    /\ IF uow._session = 0
       THEN /\ uowLast' = UowCall("commit", scope, NOT_ACTIVE)
            /\ UNCHANGED <<sessions, uow, scope, uowTable>>
       ELSE IF fault = "none"
       THEN /\ uowTable' = uowTable \o sessions[uow._session].pending
            /\ sessions' = [sessions EXCEPT ![uow._session] = SessionCommit(@)]
            /\ uowLast' = UowCall("commit", scope, "None")
            /\ UNCHANGED <<uow, scope>>
       ELSE /\ ExitRaising("commit", fault)
            /\ UNCHANGED uowTable
    /\ UNCHANGED <<otherThanUow, scopes, uowNext>>

\* uow.rollback(), inside the with block or not.
UowRollback ==
    /\ uow._session # 0 => Len(sessions[uow._session].log) < MaxSessionCalls
    /\ sessions' = rollback(uow, sessions)
    /\ uowLast' = UowCall("rollback", scope, "None")
    /\ UNCHANGED <<otherThanUow, uow, scope, scopes, uowTable, uowNext>>

\* The with block ends: __exit__(None, None, None).
UowExit ==
    /\ scope = "inside"
    /\ sessions' = ExitSessions(uow, sessions, FALSE)
    /\ uow' = InactiveUow
    /\ scope' = "outside"
    /\ uowLast' = UowCall("__exit__", scope, "None")
    /\ UNCHANGED <<otherThanUow, scopes, uowTable, uowNext>>

\* The caller's own code raises inside the with block.
UowRaise ==
    /\ scope = "inside"
    /\ ExitRaising("caller", "caller_error")
    /\ UNCHANGED <<otherThanUow, scopes, uowTable, uowNext>>

NextUow ==
    \/ \E fault \in UowFaults : UowEnter(fault)
    \/ \E fault \in UowFaults : UowSaveCall(fault)
    \/ \E fault \in UowFaults : UowCommit(fault)
    \/ UowRollback
    \/ UowExit
    \/ UowRaise

SpecUow == InitUow /\ [][NextUow]_vars

NextHttp ==
    \/ RunStart
    \/ \E code \in StatusCodes, body \in Bodies : HttpOperation(code, body)

SpecHttp == InitRetry /\ [][NextHttp]_vars

NextConfig ==
    \/ Construct
    \/ Next

SpecConfig == InitConfig /\ [][NextConfig]_vars

\* The two use cases on a router wired by create_default_llm_router, with
\* repair budgets up to MaxLoopRepairs and an audit store that works.
LoopAuditFaults == {"none"}

InitLoop ==
    /\ Built
    /\ policy \in RouterPolicies
    /\ providers = Providers
    /\ InitRest
    /\ InitStandalone

NextLoop ==
    \/ \E idGiven \in BOOLEAN, repairs \in -1..MaxLoopRepairs, found \in BOOLEAN :
          ParseCourseStart(idGiven, repairs, found)
    \/ \E idGiven \in BOOLEAN, count \in 0..MaxCandidates,
          repairs \in -1..MaxLoopRepairs, found \in BOOLEAN :
          GeneratePracticeStart(idGiven, count, repairs, found)
    \/ \E key \in KeyValues : ExecuteEnter(key)
    \/ \E o \in ProviderOutcomes(task_type) : Generate(o)
    \/ ParseSchema
    \/ \E fault \in LoopAuditFaults : HandleException(fault)
    \/ \E fault \in LoopAuditFaults : PersistSuccess(fault)
    \/ ParseCourseHandle
    \/ \E saveFault \in SaveFaults : GeneratePracticeHandle(saveFault)

SpecLoop == InitLoop /\ [][NextLoop]_vars

\* execute runs on one thread and every call it makes returns or raises (the
\* transport clients carry a timeout), so a step that can be taken is taken.
SpecLoopFair == InitLoop /\ [][NextLoop]_vars /\ WF_vars(NextLoop)

\* =================================================== concurrent execute
\* Everything but the state the threads share or own.
sequentialVars ==
    <<status_code, configVars, standaloneVars, requestVars, policy, providers, pc, retryVars, task_type, user_prompt,
      api_key, llm_call_id, provider_response, auditWrites, auditRecord, auditFault, routerOutcome,
      generateCalls, useCaseVars, routerLog, invocations>>

\* What the requests of concurrent callers range over.
ConcTasks == {"course_parse", "practice_gen"}
ConcPrompts == {InitialPrompt, RepairPrompt(0, "schema")}
ConcOutcomes ==
    {o \in OperationOutcomes : o.candidates <= 1 /\ o.detail \in {"None", "no_detail"}}

\* What the thread returns or raises when its audit write ends at `fault`.
AfterAudit(i, fault) ==
    IF AuditEscapes(fault) THEN Exc("AuditStoreError", "audit_store") ELSE i.deliver

\* Thread t calls execute: route, provider client, credential, call id.
ConcEnter(t, task, prompt, key) ==
    /\ inv[t].pc = "idle"
    /\ router = "built"
    /\ LET route == _resolve_route(routes, task)
           i == [inv[t] EXCEPT !.task_type = task, !.user_prompt = prompt]
       IN
       IF route = NoRoute \/ route.provider \notin providers
       THEN /\ inv' = [inv EXCEPT ![t] =
                          [i EXCEPT !.pc = "done",
                                    !.outcome = Exc("LLMConfigurationError", "not_configured")]]
            /\ UNCHANGED nextUuid
       ELSE IF KeyMissing(key)
       THEN /\ inv' = [inv EXCEPT ![t] =
                          [i EXCEPT !.pc = "done",
                                    !.outcome = Exc("MissingApiKeyError", "missing_api_key")]]
            /\ UNCHANGED nextUuid
       ELSE /\ inv' = [inv EXCEPT ![t] =
                          [i EXCEPT !.pc = "run", !.llm_call_id = nextUuid, !.attempt = 1]]
            /\ nextUuid' = nextUuid + 1
    /\ UNCHANGED <<sequentialVars, units, llm_calls>>

\* The audit record and the outcome to deliver for what the try body of
\* thread t ended with: a provider response, or the exception `exc`.
ConcSettle(i, response, exc) ==
    LET route == _resolve_route(routes, i.task_type)
        hash == _compute_prompt_hash(SystemPrompt, <<i.user_prompt>>)
        clause == ExceptClause(exc.type)
    IN
    IF exc.type = "None"
    THEN [i EXCEPT !.pc = "audit_open",
                   !.record = AuditRecord(i.llm_call_id, i.task_type, route, hash,
                                          "success", response.output_text),
                   !.deliver = [NoException EXCEPT !.type = "LLMResponse",
                                                   !.llm_call_id = i.llm_call_id,
                                                   !.provider = route.provider,
                                                   !.response = response]]
    ELSE IF clause = "unhandled"
    THEN [i EXCEPT !.pc = "done", !.outcome = exc]
    ELSE [i EXCEPT !.pc = "audit_open",
                   !.record = AuditRecord(i.llm_call_id, i.task_type, route, hash,
                                          ClauseStatus(clause), response.output_text),
                   !.deliver = ClauseRaises(clause, exc, route.provider)]

\* One pass of the retry loop of thread t, and when the loop ends the rest
\* of the try body and the choice of the except clause; all of it works on
\* locals of the call.
ConcGenerate(t, o) ==
    /\ inv[t].pc = "run"
    /\ LET i == [inv[t] EXCEPT !.lastOutcome =
                     IF o.type = "ProviderCallResponse"
                     THEN [o EXCEPT !.output_text = inv[t].llm_call_id] ELSE o]
           r == i.lastOutcome
       IN
       inv' = [inv EXCEPT ![t] =
          IF r.type = "ProviderCallResponse"
          THEN IF r.valid
               THEN ConcSettle(i, r, NoException)
               ELSE ConcSettle(i, r,
                       [Exc("LLMResponseValidationError", "schema_validation_failed")
                           EXCEPT !.llm_call_id = i.llm_call_id, !.response = r])
          ELSE IF ~is_retryable_llm_error(r.type)
          THEN ConcSettle(i, NoResponse, Exc(r.type, r.detail))
          ELSE IF BudgetExhausted(policy, i.attempt)
          THEN ConcSettle(i, NoResponse,
                  [ExcFrom("LLMRetryExhaustedError", "exhausted", r.type)
                      EXCEPT !.attempts = i.attempt])
          ELSE [i EXCEPT !.attempt = @ + 1]]
    /\ UNCHANGED <<sequentialVars, units, llm_calls, nextUuid>>

\* _persist_audit of thread t: the factory makes a unit of work and
\* __enter__ opens its session.
ConcAuditOpen(t, fault) ==
    /\ inv[t].pc = "audit_open"
    /\ LET opened == fault = "none"
           i == [inv[t] EXCEPT !.uow = Len(units) + 1, !.auditWrites = @ + 1]
       IN
       /\ units' = Append(units, Unit(t, IF opened THEN "open" ELSE "closed", NoRecord))
       /\ inv' = [inv EXCEPT ![t] =
                     IF opened THEN [i EXCEPT !.pc = "audit_save"]
                     ELSE [i EXCEPT !.pc = "done", !.outcome = AfterAudit(i, fault)]]
    /\ UNCHANGED <<sequentialVars, llm_calls, nextUuid>>

\* uow.llm_calls.save_call(record) on the session of the thread's own unit;
\* on an error __exit__ rolls the session back and closes it.
ConcAuditSave(t, fault) ==
    /\ inv[t].pc = "audit_save"
    /\ LET u == inv[t].uow IN
       IF fault = "none"
       THEN /\ units' = [units EXCEPT ![u].pending = inv[t].record]
            /\ inv' = [inv EXCEPT ![t].pc = "audit_commit"]
       ELSE /\ units' = [units EXCEPT ![u] = Unit(@.owner, "closed", NoRecord)]
            /\ inv' = [inv EXCEPT ![t].pc = "done",
                                  ![t].outcome = AfterAudit(inv[t], fault)]
    /\ UNCHANGED <<sequentialVars, llm_calls, nextUuid>>

\* uow.commit() makes what the session holds a row of llm_calls; then
\* __exit__ closes the session and execute returns or raises.
ConcAuditCommit(t, fault) ==
    /\ inv[t].pc = "audit_commit"
    /\ LET u == inv[t].uow IN
       /\ llm_calls' = IF fault = "none" THEN Append(llm_calls, units[u].pending)
                        ELSE llm_calls
       /\ units' = [units EXCEPT ![u] = Unit(@.owner, "closed", NoRecord)]
       /\ inv' = [inv EXCEPT ![t].pc = "done", ![t].outcome = AfterAudit(inv[t], fault)]
    /\ UNCHANGED <<sequentialVars, nextUuid>>

NextConc ==
    \/ \E t \in Threads, task \in ConcTasks, prompt \in ConcPrompts, key \in KeyValues :
          ConcEnter(t, task, prompt, key)
    \/ \E t \in Threads, o \in ConcOutcomes : ConcGenerate(t, o)
    \/ \E t \in Threads, fault \in {"none", "acquire"} : ConcAuditOpen(t, fault)
    \/ \E t \in Threads, fault \in {"none", "save_call"} : ConcAuditSave(t, fault)
    \/ \E t \in Threads, fault \in {"none", "commit"} : ConcAuditCommit(t, fault)

SpecConc == InitLoop /\ [][NextConc]_vars
\* ================================================================ claims
InvocationDone == pc = "router_done"
\* A call id is drawn only after route and credential resolution.
PastResolution == llm_call_id # 0
InLoop == useCase \in {"parse", "practice"}

TransientTypes == {"ProviderRateLimitError", "ProviderServerError", "ReadTimeout", "ConnectError"}

\* C1: every invocation of execute that got past route and credential
\* resolution has made exactly one audit write when it returns or raises,
\* whatever the transport client raised and however often it was retried.
C1_ExactlyOneAuditWrite ==
    (InvocationDone /\ PastResolution) => auditWrites = 1

\* C2: the status of the audit record of an invocation equals its outcome:
\* success iff a response is returned, schema_invalid iff the schema-invalid
\* error is raised, provider_rejected iff the provider-rejected error is
\* raised, provider_unavailable iff the provider-unavailable error is raised;
\* a committed row is that record.
C2_StatusMatchesOutcome ==
    InvocationDone =>
        /\ (auditRecord.status = "success") <=> (routerOutcome.type = "LLMResponse")
        /\ (auditRecord.status = "schema_invalid")
              <=> (routerOutcome.type = "LLMResponseValidationError")
        /\ (auditRecord.status = "provider_rejected")
              <=> (routerOutcome.type = "LLMRequestRejectedError")
        /\ (auditRecord.status = "provider_unavailable")
              <=> (routerOutcome.type = "LLMExecutionError")
        /\ (auditWrites > 0 /\ auditFault = "none") =>
              (llm_calls # <<>> /\ llm_calls[Len(llm_calls)] = auditRecord)

C2_Witness ==
    /\ InvocationDone
    /\ auditRecord.status = "provider_rejected"
    /\ routerOutcome.type = "LLMRequestRejectedError"
    /\ llm_calls # <<>>

\* C3: when the audit unit of work fails (on acquisition, save_call or
\* commit) the caller still gets the outcome the transport result alone
\* determines, and never the audit failure.
C3_AuditFailureIsolated ==
    (InvocationDone /\ auditWrites > 0 /\ auditFault # "none") =>
        /\ routerOutcome.type # "AuditStoreError"
        /\ (lastOutcome.type = "ProviderCallResponse" /\ lastOutcome.valid) =>
              /\ routerOutcome.type = "LLMResponse"
              /\ routerOutcome.response = lastOutcome
              /\ routerOutcome.llm_call_id = llm_call_id
        /\ (lastOutcome.type = "ProviderCallResponse" /\ ~lastOutcome.valid) =>
              /\ routerOutcome.type = "LLMResponseValidationError"
              /\ routerOutcome.response = lastOutcome
              /\ routerOutcome.llm_call_id = llm_call_id
        /\ lastOutcome.type = "ProviderRequestError" =>
              routerOutcome.type = "LLMRequestRejectedError"
        /\ lastOutcome.type \in TransientTypes =>
              routerOutcome.type = "LLMExecutionError"

C3_Witness ==
    /\ InvocationDone
    /\ auditFault = "commit"
    /\ routerOutcome.type = "LLMResponse"
    /\ llm_calls = <<>>

\* C4: when the key store returns nothing or an empty credential, execute
\* raises the missing-credential error with no generate call and no audit
\* write in that invocation.
C4_MissingKeyBeforeTransport ==
    (useCase # "none" /\ api_key \in {"None", ""}) =>
        /\ pc \in {"router_done", "finished"}
        /\ routerOutcome.type = "MissingApiKeyError"
        /\ calls = 0
        /\ auditWrites = 0
        /\ \A i \in 1..Len(llm_calls) : llm_calls[i].llm_call_id # llm_call_id

C4_Witness ==
    /\ InvocationDone
    /\ api_key = ""
    /\ routerOutcome.type = "MissingApiKeyError"
    /\ generateCalls = [p \in Providers |-> 0]

\* C5: whatever the transport client raised, an invocation past resolution
\* ends in a response or in one of the caller-visible kinds schema-invalid,
\* provider-unavailable, provider-rejected.
C5_NoProviderErrorLeaks ==
    (InvocationDone /\ PastResolution) =>
        routerOutcome.type \in {"LLMResponse", "LLMResponseValidationError",
                                "LLMExecutionError", "LLMRequestRejectedError"}

\* C6: a repair loop with max_repair_attempts = m >= 0 whose every router
\* invocation ends schema-invalid makes exactly m + 1 invocations and fails
\* with the user-facing could-not-produce error, not the schema error.
AllSchemaInvalid ==
    \A i \in 1..Len(routerLog) : routerLog[i] = "LLMResponseValidationError"

C6_ExhaustedRepairLoop ==
    (InLoop /\ pc = "finished" /\ max_attempts >= 1 /\ AllSchemaInvalid) =>
        /\ Len(routerLog) = max_attempts
        /\ useCaseResult.type = "ValueError"
        /\ useCaseResult.message =
              (IF useCase = "parse" THEN "could_not_produce_valid_course_plan"
               ELSE "could_not_produce_valid_practice_task")

C6_Witness ==
    /\ useCase = "practice"
    /\ pc = "finished"
    /\ max_attempts = 2
    /\ routerLog = <<"LLMResponseValidationError", "LLMResponseValidationError">>
    /\ useCaseResult.type = "ValueError"

\* C7: in a repair loop a missing-credential, provider-rejected or
\* provider-unavailable outcome of the router is the last invocation of the
\* loop, which then fails with a user-facing error, also when repair
\* attempts remain.
TerminalOutcomes == {"MissingApiKeyError", "LLMRequestRejectedError", "LLMExecutionError"}

C7_TerminalErrorsStopLoop ==
    InLoop =>
        \A i \in 1..Len(routerLog) :
            routerLog[i] \in TerminalOutcomes =>
                /\ i = Len(routerLog)
                /\ pc \in {"router_done", "finished"}
                /\ pc = "finished" =>
                      /\ useCaseResult.type = "ValueError"
                      /\ useCaseResult.message \in
                            {"missing_api_key_open_keys_dialog",
                             "rejected_check_model_and_key", "openrouter_privacy_policy",
                             "temporarily_unavailable"}

C7_Witness ==
    /\ InLoop
    /\ pc = "finished"
    /\ Len(routerLog) = 1
    /\ routerLog[1] = "LLMExecutionError"
    /\ attempt_number < max_attempts
    /\ useCaseResult.type = "ValueError"

\* C8: the executor goes on to another attempt only after a whitelisted
\* transient error; any other error leaves run unchanged on the attempt it
\* occurs, with no sleep and no further call of the operation.
C8_OnlyRetryableRetried ==
    [][/\ (attempt > 0 /\ attempt' > attempt) =>
              (lastOutcome'.type \in TransientTypes /\ Len(sleeps') = Len(sleeps) + 1)
       /\ (calls' = calls + 1
             /\ lastOutcome'.type \notin TransientTypes \cup {"ProviderCallResponse"}) =>
              /\ pc' = "raised"
              /\ raised'.type = lastOutcome'.type
              /\ raised'.cause = "None"
              /\ sleeps' = sleeps
              /\ attempt' = attempt
       /\ pc = "raised" => (calls' = calls /\ sleeps' = sleeps)]_vars

C8_Witness ==
    /\ pc = "raised"
    /\ raised.type = "ProviderRequestError"
    /\ calls = 2
    /\ Len(sleeps) = 1

\* C9: when every attempt fails with a retryable error, run has called the
\* operation max_attempts times and slept max_attempts - 1 times when it
\* raises the retry-exhausted error, whose attempts is max_attempts and whose
\* cause is the last error.
C9_ExhaustionAfterMaxAttempts ==
    /\ (pc = "raised" /\ lastOutcome.type \in TransientTypes) =>
          /\ raised.type = "LLMRetryExhaustedError"
          /\ raised.attempts = policy.max_attempts
          /\ raised.cause = lastOutcome.type
          /\ calls = policy.max_attempts
          /\ Len(sleeps) = policy.max_attempts - 1
    /\ calls <= policy.max_attempts
    /\ raised.type = "LLMRetryExhaustedError" => lastOutcome.type \in TransientTypes

C9_Witness ==
    /\ pc = "raised"
    /\ raised.type = "LLMRetryExhaustedError"
    /\ policy.max_attempts = 3
    /\ calls = 3
    /\ Len(sleeps) = 2

\* C10: when the operation succeeds on its k-th call, run returns that
\* result after exactly k calls and k - 1 sleeps, the i-th sleep lasting
\* min(max_delay, base_delay * multiplier^(i-1)); the sleeps never decrease
\* and never exceed max_delay.
C10_BackoffSchedule ==
    pc = "returned" =>
        /\ result = lastOutcome
        /\ calls = attempt
        /\ calls <= policy.max_attempts
        /\ Len(sleeps) = calls - 1
        /\ \A i \in 1..Len(sleeps) :
              /\ sleeps[i] = Min(policy.max_delay_seconds,
                                 policy.base_delay_seconds
                                    * Pow(policy.backoff_multiplier, i - 1))
              /\ sleeps[i] <= policy.max_delay_seconds
              /\ i > 1 => sleeps[i - 1] <= sleeps[i]

C10_Witness ==
    /\ pc = "returned"
    /\ calls = 3
    /\ policy.backoff_multiplier = 2
    /\ sleeps = <<1, 1>>
\* The route map satisfies the provider policy: every task type of the
\* compliance table has a route, to its mandated provider.
Compliant(rt) ==
    \A t \in TaskTypes : rt[t] # NoRoute /\ rt[t].provider = EXPECTED_PROVIDER_BY_TASK(t)

NothingServed ==
    /\ pc = "idle"
    /\ useCase = "none"
    /\ generateCalls = [p \in Providers |-> 0]
    /\ auditWrites = 0
    /\ llm_calls = <<>>
    /\ routerOutcome = NoException

\* C11: a router object exists only for a compliant route map; with a map
\* that misses a route or names another provider than the mandated one,
\* construction raises a configuration error, no router exists and no request
\* is ever served.
C11_FailFastRoutingPolicy ==
    /\ router = "built" => Compliant(routes)
    /\ router = "failed" =>
          /\ ~Compliant(routes)
          /\ constructError.type = "LLMConfigurationError"
    /\ ~Compliant(routes) => NothingServed

C11_Witness ==
    /\ router = "failed"
    /\ constructError.type = "LLMConfigurationError"
    /\ constructError.message = "policy_violation"
    /\ routes["curator_msg"].provider = "anthropic"
    /\ \A t \in TaskTypes \ {"curator_msg"} :
          routes[t].provider = EXPECTED_PROVIDER_BY_TASK(t)

\* C12: every generate call of an invocation for task type t goes to the
\* client of t's mandated provider and to no other, and the provider of the
\* audit record and of the returned response is that provider.
C12_MandatedProviderOnly ==
    [][/\ \A p \in Providers :
              generateCalls'[p] # generateCalls[p] =>
                  /\ p = EXPECTED_PROVIDER_BY_TASK(task_type)
                  /\ generateCalls'[p] = generateCalls[p] + 1
       /\ auditWrites' > auditWrites =>
              auditRecord'.provider = EXPECTED_PROVIDER_BY_TASK(task_type)
       /\ (pc' = "router_done" /\ routerOutcome'.type = "LLMResponse") =>
              routerOutcome'.provider = EXPECTED_PROVIDER_BY_TASK(task_type)]_vars

C12_Witness ==
    /\ task_type = "practice_gen"
    /\ pc = "router_done"
    /\ generateCalls = [p \in Providers |-> IF p = "openrouter" THEN 2 ELSE 0]
    /\ routerOutcome.type = "LLMResponse"
    /\ routerOutcome.provider = "openrouter"
    /\ auditRecord.provider = "openrouter"
\* The diagnostic a use case derives from an invocation it repairs: the
\* validation errors of a schema-invalid outcome, else the shortfall message.
DiagnosticOf(call) ==
    IF call.outcome = "LLMResponseValidationError" THEN "schema" ELSE "shortfall"

\* C13: in a repair loop an invocation begins only when all earlier ones have
\* ended, the first carries the initial user prompt, and invocation n+1
\* carries the repair prompt made of the output text and the diagnostic of
\* invocation n, the one right before it.
C13_RepairPromptFromPreviousAttempt ==
    InLoop =>
        /\ Len(invocations) <= attempt_number
        /\ \A i \in 1..Len(invocations) :
              /\ i < Len(invocations) => invocations[i].done
              /\ i = 1 => invocations[i].user_prompt.kind = "initial"
              /\ i > 1 =>
                    /\ invocations[i].user_prompt.kind = "repair"
                    /\ invocations[i - 1].llm_call_id # 0
                    /\ invocations[i - 1].output_text = invocations[i - 1].llm_call_id
                    /\ invocations[i].user_prompt.invalid_output =
                          invocations[i - 1].output_text
                    /\ invocations[i].user_prompt.validation_errors =
                          DiagnosticOf(invocations[i - 1])

C13_Witness ==
    /\ useCase = "practice"
    /\ Len(invocations) = 3
    /\ invocations[1].outcome = "LLMResponseValidationError"
    /\ invocations[2].outcome = "LLMResponse"
    /\ invocations[3].user_prompt = RepairPrompt(invocations[2].output_text, "shortfall")
    /\ invocations[3].user_prompt # RepairPrompt(invocations[1].output_text, "schema")
    /\ invocations[3].done
\* The practice use case holds a valid response with fewer candidates than
\* it asked for.
Shortfall ==
    /\ useCase = "practice"
    /\ pc = "router_done"
    /\ routerOutcome.type = "LLMResponse"
    /\ routerOutcome.response.candidates < candidate_count

\* C14: on a valid response with fewer candidates than requested the
\* practice loop goes on, when attempts remain, to the next attempt of the
\* same budget with a repair prompt made of that response's output text and
\* the shortfall diagnostic, and otherwise fails with a user-facing error;
\* no batch is persisted either way.
C14_ShortfallFeedsRepairLoop ==
    [][Shortfall =>
          /\ savedBatch' = NoBatch
          /\ attempt_number' <= max_attempts
          /\ IF attempt_number < max_attempts
             THEN /\ pc' = "call_router"
                  /\ attempt_number' = attempt_number + 1
                  /\ prompt_for_attempt'.kind = "repair"
                  /\ prompt_for_attempt'.invalid_output = routerOutcome.response.output_text
                  /\ prompt_for_attempt'.validation_errors = "shortfall"
                  /\ useCaseResult' = NoException
             ELSE /\ pc' = "finished"
                  /\ useCaseResult'.type = "ValueError"
                  /\ useCaseResult'.message = "insufficient_candidates"]_vars

C14_Witness ==
    /\ useCase = "practice"
    /\ pc = "finished"
    /\ max_attempts = 2
    /\ Len(invocations) = 2
    /\ \A i \in 1..2 : invocations[i].outcome = "LLMResponse"
    /\ invocations[2].user_prompt = RepairPrompt(invocations[1].output_text, "shortfall")
    /\ useCaseResult.message = "insufficient_candidates"
    /\ savedBatch = NoBatch

\* C15: the practice use case persists a batch at most once per execution,
\* only from a response with at least candidate_count candidates; the batch
\* holds the first candidate_count candidates of that response in order,
\* numbered from 1, and surplus candidates are dropped without an error.
C15_BatchIsFirstNCandidates ==
    [][savedBatch' # savedBatch =>
          /\ savedBatch = NoBatch
          /\ useCase = "practice"
          /\ pc' = "finished"
          /\ routerOutcome.type = "LLMResponse"
          /\ routerOutcome.response.candidates >= candidate_count
          /\ savedBatch'.llm_call_id = routerOutcome.llm_call_id
          /\ Len(savedBatch'.candidates) = candidate_count
          /\ \A i \in 1..Len(savedBatch'.candidates) :
                /\ savedBatch'.candidates[i].candidate_index = i
                /\ savedBatch'.candidates[i].source = i
          /\ useCaseResult'.type \in {"GeneratePracticeResult", "RuntimeError"}
          /\ useCaseResult'.type = "GeneratePracticeResult" =>
                useCaseResult'.attempts = Len(invocations)]_vars

C15_Witness ==
    /\ useCase = "practice"
    /\ pc = "finished"
    /\ candidate_count = 2
    /\ routerOutcome.response.candidates = 3
    /\ Len(savedBatch.candidates) = 2
    /\ savedBatch.candidates[2] = [candidate_index |-> 2, source |-> 2]
    /\ useCaseResult.type = "GeneratePracticeResult"
\* The outcome and the audit status a call of execute has when it runs alone
\* and its last transport result is o.
AloneOutcome(o) ==
    IF o.type = "ProviderCallResponse"
    THEN IF o.valid THEN "LLMResponse" ELSE "LLMResponseValidationError"
    ELSE IF o.type = "ProviderRequestError" THEN "LLMRequestRejectedError"
    ELSE IF o.type \in TransientTypes THEN "LLMExecutionError"
    ELSE o.type

AloneStatus(o) ==
    IF o.type = "ProviderCallResponse"
    THEN IF o.valid THEN "success" ELSE "schema_invalid"
    ELSE IF o.type = "ProviderRequestError" THEN "provider_rejected"
    ELSE "provider_unavailable"

\* Thread t made one audit write, of its own call id, status and prompt
\* hash, through a unit of work no other thread holds, and the table has no
\* other row of that call id.
OwnAuditWrite(t) ==
    /\ inv[t].auditWrites = 1
    /\ inv[t].uow \in 1..Len(units)
    /\ units[inv[t].uow].owner = t
    /\ \A u \in Threads \ {t} : inv[u].uow # inv[t].uow /\ inv[u].llm_call_id # inv[t].llm_call_id
    /\ inv[t].record.llm_call_id = inv[t].llm_call_id
    /\ inv[t].record.status = AloneStatus(inv[t].lastOutcome)
    /\ inv[t].record.prompt_hash =
          <<"sha256", encode(SystemPrompt \o Separator \o <<inv[t].user_prompt>>)>>
    /\ \A k \in 1..Len(llm_calls) :
          llm_calls[k].llm_call_id = inv[t].llm_call_id =>
              /\ llm_calls[k] = inv[t].record
              /\ \A j \in 1..Len(llm_calls) : llm_calls[j] = llm_calls[k] => j = k

OwnOutcome(t) ==
    /\ inv[t].outcome.type = AloneOutcome(inv[t].lastOutcome)
    /\ inv[t].outcome.type \in {"LLMResponse", "LLMResponseValidationError"} =>
          /\ inv[t].outcome.llm_call_id = inv[t].llm_call_id
          /\ inv[t].outcome.response = inv[t].lastOutcome

\* C16: under any interleaving of two calls of execute on one router, each
\* call that got a call id has, when it ends, written exactly one audit
\* record with its own call id, status and prompt hash through a unit of
\* work of its own, and delivers the outcome its own transport result gives.
C16_ConcurrentInvocationsIsolated ==
    \A t \in Threads :
        (inv[t].pc = "done" /\ inv[t].llm_call_id # 0) =>
            (OwnAuditWrite(t) /\ OwnOutcome(t))

\* The same for the calls whose transport result an except clause of execute
\* handles.
ConcurrentHandledIsolated ==
    \A t \in Threads :
        (inv[t].pc = "done" /\ inv[t].llm_call_id # 0
            /\ inv[t].lastOutcome.type # "ProviderResponseError") =>
            (OwnAuditWrite(t) /\ OwnOutcome(t))
RetriedStatuses ==
    {c \in StatusCodes : c = 429 \/ (500 <= c /\ c <= 599)}

StatusClass(c) ==
    IF c = 429 THEN "ProviderRateLimitError"
    ELSE IF 500 <= c /\ c <= 599 THEN "ProviderServerError"
    ELSE "ProviderRequestError"

\* The executor goes on after the latest response exactly when its status
\* is 429 or 5xx.
RetriedIffTransient ==
    /\ pc = "run" => status_code \in RetriedStatuses
    /\ pc = "raised" =>
          (raised.type = "LLMRetryExhaustedError" <=> status_code \in RetriedStatuses)
    /\ (pc = "raised" /\ raised.type = "LLMRetryExhaustedError") =>
          attempt = policy.max_attempts

\* C17: generate turns every response whose status is not 2xx into exactly
\* one transport error, rate-limit for 429, server-error for 500..599,
\* request-rejected for the rest, and under the default retry predicate the
\* executor retries after 429 and 5xx and after no other error status.
C17_StatusClassification ==
    (status_code # 0 /\ ~(200 <= status_code /\ status_code <= 299)) =>
        /\ lastOutcome.type = StatusClass(status_code)
        /\ RetriedIffTransient

\* The same for the statuses from 400 on.
ErrorStatusClassified ==
    status_code >= 400 =>
        /\ lastOutcome.type = StatusClass(status_code)
        /\ RetriedIffTransient
\* C18: the provider-unavailable error of an invocation carries the one
\* fixed message, whichever transient error ended the retries and whatever
\* detail text that error carried; so the messages of any two such
\* invocations are the same.
C18_UnavailableMessageFixed ==
    (InvocationDone /\ routerOutcome.type = "LLMExecutionError") =>
        /\ routerOutcome.message = "temporarily_unavailable"
        /\ routerOutcome.message \notin ErrorDetails
        /\ lastOutcome.type \in TransientTypes
        /\ lastOutcome.detail \in ErrorDetails

C18_Witness ==
    /\ InvocationDone
    /\ routerOutcome.type = "LLMExecutionError"
    /\ routerOutcome.message = "temporarily_unavailable"
    /\ lastOutcome.type = "ProviderServerError"
    /\ lastOutcome.detail = "no endpoints found matching your data policy"
    /\ calls = 2

\* The invocation in progress or just ended is the last one begun.
CurrentInvocation == invocations[Len(invocations)]

\* C19: an invocation that reaches the transport call has one call id from
\* its first generate call to its end, however many retries it makes; the
\* audit record and the response or schema-invalid error the caller gets
\* carry that id, and no two invocations have the same id.
C19_OneCallIdPerInvocation ==
    /\ pc \in {"run", "returned", "raised", "success", "router_done"} =>
          /\ llm_call_id = CurrentInvocation.llm_call_id
          /\ calls > 0 => llm_call_id # 0
    /\ (InvocationDone /\ PastResolution) =>
          /\ auditWrites > 0 => auditRecord.llm_call_id = llm_call_id
          /\ routerOutcome.type \in {"LLMResponse", "LLMResponseValidationError"} =>
                routerOutcome.llm_call_id = llm_call_id
    /\ \A i, j \in 1..Len(invocations) :
          (invocations[i].llm_call_id # 0
              /\ invocations[i].llm_call_id = invocations[j].llm_call_id) => i = j
    /\ \A k \in 1..Len(llm_calls) :
          \E i \in 1..Len(invocations) : llm_calls[k].llm_call_id = invocations[i].llm_call_id

C19_Witness ==
    /\ InvocationDone
    /\ Len(invocations) = 2
    /\ invocations[1].llm_call_id = 1
    /\ llm_call_id = 2
    /\ calls = 2
    /\ auditRecord.llm_call_id = 2
    /\ routerOutcome.type = "LLMResponseValidationError"
    /\ routerOutcome.llm_call_id = 2

\* C20: the result of a repair loop that succeeds counts as attempts the
\* router invocations the loop made and carries the call id of the last of
\* them, which is the one that succeeded; none follows it.
C20_ResultCountsInvocations ==
    (InLoop /\ useCaseResult.type \in {"ParseCourseResult", "GeneratePracticeResult"}) =>
        /\ pc = "finished"
        /\ useCaseResult.attempts = Len(invocations)
        /\ CurrentInvocation.done
        /\ CurrentInvocation.outcome = "LLMResponse"
        /\ useCaseResult.llm_call_id = CurrentInvocation.llm_call_id
        /\ useCaseResult.llm_call_id # 0
        /\ \A i \in 1..Len(invocations) :
              invocations[i].llm_call_id = useCaseResult.llm_call_id => i = Len(invocations)

C20_Witness ==
    /\ useCase = "parse"
    /\ pc = "finished"
    /\ useCaseResult.type = "ParseCourseResult"
    /\ useCaseResult.attempts = 3
    /\ Len(invocations) = 3
    /\ useCaseResult.llm_call_id = 3
    /\ generateCalls["anthropic"] > 3
\* ---------------------------------------------------------------- C21
PolicyInvariants(p) ==
    /\ p.max_attempts >= 1
    /\ p.base_delay_seconds >= 0
    /\ p.max_delay_seconds >= 0
    /\ p.backoff_multiplier >= 1

\* C21: RetryExecutor(policy) yields an executor exactly when the policy has
\* max attempts >= 1, base delay >= 0, max delay >= 0 and multiplier >= 1, and
\* fails with a ValueError otherwise; an executor that runs an operation
\* therefore holds a policy within all four floors.
C21_ExecutorHoldsValidPolicy ==
    /\ executor = "built" => PolicyInvariants(policy) /\ executorError = NoException
    /\ executor = "failed" => ~PolicyInvariants(policy) /\ executorError.type = "ValueError"
    /\ (pc # "idle" \/ calls > 0) => executor = "built" /\ PolicyInvariants(policy)

C21_Witness ==
    /\ executor = "built"
    /\ pc = "returned"
    /\ calls = policy.max_attempts
    /\ calls > 1

\* A rejected construction, for each floor on its own.
C21_RejectedWitness ==
    /\ executor = "failed"
    /\ policy.max_attempts >= 1
    /\ policy.base_delay_seconds >= 0
    /\ policy.max_delay_seconds < 0
    /\ pc = "idle"
\* ---------------------------------------------------------------- C22
IsJsonText(text) == model_validate_json(text).valid
\* The opening line is read without regard to case.
ProperFence ==
    opening \in {<<"fence">>, <<"fence", "json">>, <<"fence", "JSON">>} /\ closing = <<"fence">>
SameValidation(a, b) == a.valid = b.valid /\ a.payload = b.payload

\* C22: a JSON text between an opening line ``` or ```json and a closing
\* line ``` validates to the same payload, or fails validation alike, as the
\* text on its own; any other text is handed to the parser as it is, less
\* the white space around it.
C22_FencedParsesIdentically ==
    /\ (plainResult.done /\ fencedResult.done /\ IsJsonText(json_text) /\ ProperFence)
            => SameValidation(fencedResult, plainResult)
    /\ plainResult.done => plainResult.normalized_output = strip(json_text)
    /\ (fencedResult.done /\ ~ProperFence)
            => fencedResult.normalized_output = strip(fencedResult.output_text)

\* What does hold: the same without a line boundary other than the line feed
\* inside the JSON text, and with every opening line that begins with
\* ```json, in either case, counted as a fence.
HasOtherBoundary(text) == \E i \in 1..Len(text) : text[i] = "ls"
LenientFence ==
    /\ opening \in {<<"fence">>, <<"fence", "json">>, <<"fence", "JSON">>, <<"fence", "json", "c">>}
    /\ closing = <<"fence">>
FencedParsesIdenticallyOnOneLineKind ==
    /\ (plainResult.done /\ fencedResult.done /\ LenientFence /\ ~HasOtherBoundary(json_text))
            => SameValidation(fencedResult, plainResult)
    /\ plainResult.done => plainResult.normalized_output = strip(json_text)
    /\ (fencedResult.done /\ ~LenientFence)
            => fencedResult.normalized_output = strip(fencedResult.output_text)

C22_BoundaryWitness ==
    /\ plainResult.done /\ fencedResult.done /\ ProperFence
    /\ plainResult.valid /\ ~fencedResult.valid
C22_OpeningWitness ==
    /\ fencedResult.done /\ opening = <<"fence", "json", "c">> /\ fencedResult.valid
\* ---------------------------------------------------------------- C23
Hashed(k) == promptHashes[k] # <<>>

\* C23: two calls given the same (system prompt, user prompt) return the
\* same hash, a call made again returns what it returned before, and two
\* calls given pairs that differ in the system prompt or in the user prompt
\* return different hashes.
C23_PromptHashSeparatesPairs ==
    \A j, k \in HashCalls :
        (Hashed(j) /\ Hashed(k)) =>
            (promptPairs[j] = promptPairs[k] <=> promptHashes[j] = promptHashes[k])

\* What does hold: pairs that differ in one prompt only, or whose system
\* prompts do not hold the separator, hash differently; and the hash is a
\* function of the pair.
HoldsSeparator(text) == \E i \in 1..Len(text) : text[i] = "---"
PromptHashSeparatesOneChange ==
    \A j, k \in HashCalls :
        (Hashed(j) /\ Hashed(k)) =>
            /\ promptPairs[j] = promptPairs[k] => promptHashes[j] = promptHashes[k]
            /\ ( /\ promptPairs[j] # promptPairs[k]
                 /\ \/ promptPairs[j].system_prompt = promptPairs[k].system_prompt
                    \/ promptPairs[j].user_prompt = promptPairs[k].user_prompt
                    \/ /\ ~HoldsSeparator(promptPairs[j].system_prompt)
                       /\ ~HoldsSeparator(promptPairs[k].system_prompt) )
                => promptHashes[j] # promptHashes[k]
PromptHashIsFunction ==
    [][\A k \in HashCalls : Hashed(k) => promptHashes'[k] = promptHashes[k]]_vars

C23_CollisionWitness ==
    /\ Hashed(1) /\ Hashed(2)
    /\ promptPairs[1].system_prompt # promptPairs[2].system_prompt
    /\ promptPairs[1].user_prompt # promptPairs[2].user_prompt
    /\ promptHashes[1] = promptHashes[2]
\* ---------------------------------------------------------------- C24
\* The environment values that switch storage off, as the deployment writes
\* them.
ToggleOff(k) ==
    /\ environ[k].set
    /\ environ[k].value \in {<<"0">>, <<"false">>, <<"False">>, <<"sp", "OFF", "sp">>,
                              <<"no">>, <<"off">>}
Kept(text, max_length) ==
    IF text.length <= max_length THEN text
    ELSE [length |-> max_length + 14,
          body |-> <<"first", max_length, "of">> \o text.body \o <<"...[truncated]">>]

\* C24: with the toggle off the record holds neither output text nor
\* validation diagnostics and still holds the hash and the length of the
\* output; with it on, as when the variable is unset, both are held (cut to
\* their limits); and two runs of the same call under different settings
\* agree on status, on whether _persist_audit returns, and on whether a row
\* is written.
C24_ToggleGatesPayloadOnly ==
    /\ \A k \in AuditRuns :
          persistDone[k] # "no" =>
             LET rec == persistRecord[k] IN
             /\ rec.status = persistArgs.status
             /\ persistArgs.output_text # NoText =>
                   /\ rec.output_hash = <<"sha256", persistArgs.output_text>>
                   /\ rec.output_length = persistArgs.output_text.length
             /\ ToggleOff(k) => rec.output_text = NoText /\ rec.validation_errors = NoText
             /\ ~ToggleOff(k) =>
                   /\ persistArgs.output_text # NoText =>
                         rec.output_text = Kept(persistArgs.output_text, 16000)
                   /\ persistArgs.validation_errors # NoText =>
                         rec.validation_errors = Kept(persistArgs.validation_errors, 8000)
    /\ \A j, k \in AuditRuns :
          (persistDone[j] # "no" /\ persistDone[k] # "no") =>
             /\ persistDone[j] = persistDone[k]
             /\ Len(persistTable[j]) = Len(persistTable[k])
             /\ persistRecord[j].status = persistRecord[k].status
             /\ persistRecord[j].output_hash = persistRecord[k].output_hash
             /\ persistRecord[j].output_length = persistRecord[k].output_length

C24_Witness ==
    /\ persistDone = [k \in AuditRuns |-> "returned"]
    /\ ~environ[1].set
    /\ environ[2] = SetTo(<<"sp", "OFF", "sp">>)
    /\ persistArgs.status = "schema_invalid"
    /\ Len(persistTable[1]) = 1 /\ Len(persistTable[2]) = 1
    /\ persistTable[1][1].output_text.length = 16014
    /\ persistTable[2][1].output_text = NoText
    /\ persistTable[2][1].output_length = 16001
\* ---------------------------------------------------------------- C25
\* Record r was added to the session and a commit followed with no rollback
\* and no close in between.
CommittedIn(session, r) ==
    \E i, j \in 1..Len(session.log) :
        /\ i < j
        /\ session.log[i] = Called("add", r)
        /\ session.log[j].call = "commit"
        /\ \A k \in (i + 1)..(j - 1) : session.log[k].call \notin {"rollback", "close"}
InTable(r) == \E n \in 1..Len(uowTable) : uowTable[n] = r
LastCalls(session, n) == SubSeq(session.log, Len(session.log) - n + 1, Len(session.log))

UowScopeState ==
    /\ scope = "outside" =>
          /\ uow = InactiveUow
          /\ \A n \in 1..Len(sessions) : ~sessions[n].open /\ sessions[n].pending = <<>>
    /\ scope = "inside" =>
          /\ uow._session = Len(sessions)
          /\ uow.llm_calls = Len(sessions)
          /\ sessions[uow._session].open
    /\ \A n \in 1..Len(sessions) :
          /\ ~sessions[n].open => LastCalls(sessions[n], 1) = <<Called("close", 0)>>
          /\ \A i \in 1..(Len(sessions[n].log) - 1) : sessions[n].log[i].call # "close"
    /\ (uowLast.scope = "outside" /\ uowLast.call \in {"save_call", "commit"}) =>
          uowLast.error = "Unit of work is not active."
    /\ (uowLast.scope = "inside" /\ uowLast.error # "None") =>
          /\ scope = "outside"
          /\ LET left == sessions[Len(sessions)] IN
             /\ Len(left.log) >= 2
             /\ LastCalls(left, 2) = <<Called("rollback", 0), Called("close", 0)>>
    /\ \A r \in RecordIds :
          InTable(r) <=> \E n \in 1..Len(sessions) : CommittedIn(sessions[n], r)

UowInactiveStep ==
    (scope = "outside" /\ uowLast'.call \in {"save_call", "commit", "rollback"})
        => UNCHANGED <<uow, sessions, uowTable, scope>>

LoopBounded ==
    /\ useCaseResult.type # "AssertionError"
    /\ useCase # "none" => Len(invocations) <= max_attempts
    /\ useCase # "none" => attempt_number <= max_attempts
    /\ (useCase # "none" /\ pc # "finished") => max_attempts >= 1

\* C26: with max_repair_attempts >= 0 and whatever the router returns or
\* raises, execute of either use case ends, with a result or an error, after
\* at most max_repair_attempts + 1 calls of the router, and never by the
\* assertion placed after the loop.
C26_LoopTerminates == []LoopBounded /\ <>(pc = "finished")

C26_Witness ==
    /\ pc = "finished"
    /\ useCase = "practice"
    /\ max_attempts = MaxLoopRepairs + 1
    /\ Len(invocations) = max_attempts
    /\ useCaseResult.type = "ValueError"
    /\ routerLog[1] = "LLMResponseValidationError"
\* ---------------------------------------------------------------- C27
\* The retry executor has returned a response in the current invocation.
RunReturned ==
    \/ pc \in {"returned", "success"}
    \/ pc = "raised" /\ raised.type = "LLMResponseValidationError"
    \/ pc = "router_done" /\ PastResolution /\ provider_response # NoResponse

TransportCallsFixedAfterReturn ==
    /\ RunReturned =>
          /\ calls = attempt
          /\ Len(sleeps) = calls - 1
          /\ lastOutcome.type = "ProviderCallResponse"
    /\ (RunReturned /\ llm_call_id' = llm_call_id) =>
          /\ calls' = calls
          /\ attempt' = attempt
          /\ generateCalls' = generateCalls
          /\ pc' # "run"

\* C27: once the retry executor has returned a response on its k-th try,
\* generate has been called k times in the invocation and is not called
\* again in it, whether the output then validates or not.
C27_NoRetryOnSchemaInvalid == [][TransportCallsFixedAfterReturn]_vars

C27_Witness ==
    /\ pc = "router_done"
    /\ routerOutcome.type = "LLMResponseValidationError"
    /\ calls >= 1
    /\ calls < policy.max_attempts
    /\ generateCalls[auditRecord.provider] = calls
    /\ auditRecord.status = "schema_invalid"
\* ---------------------------------------------------------------- C28
RECURSIVE SumOver(_, _)
SumOver(f, set) ==
    IF set = {} THEN 0
    ELSE LET x == CHOOSE y \in set : TRUE IN f[x] + SumOver(f, set \ {x})
TransportCalls == SumOver(generateCalls, Providers)
NonSchemaFailure ==
    /\ pc = "finished"
    /\ attempt_number >= 1
    /\ useCaseResult.type = "ValueError"
    /\ useCaseResult.cause \in {"MissingApiKeyLLMError", "LLMRequestRejectedError",
                                 "LLMTemporaryError", "MissingApiKeyError",
                                 "LLMExecutionError", "LLMRequestError"}

\* C28: a repair loop with max_repair_attempts = m under a retry policy with
\* max_attempts = r makes at most (m + 1) * r transport calls and writes at
\* most m + 1 audit records; when it ends at attempt n on a failure other
\* than an invalid output it has made at most n * r transport calls.
C28_LoopCallBudget ==
    InLoop =>
        /\ TransportCalls <= max_attempts * policy.max_attempts
        /\ Len(llm_calls) <= max_attempts
        /\ NonSchemaFailure => TransportCalls <= attempt_number * policy.max_attempts

C28_Witness ==
    /\ InLoop
    /\ pc = "finished"
    /\ max_attempts = MaxLoopRepairs + 1
    /\ policy.max_attempts = MaxRouterAttempts
    /\ TransportCalls = max_attempts * policy.max_attempts
    /\ Len(llm_calls) = max_attempts

C28_FailureWitness ==
    /\ NonSchemaFailure
    /\ attempt_number = 2
    /\ attempt_number < max_attempts
    /\ TransportCalls = attempt_number * policy.max_attempts
\* ---------------------------------------------------------------- C29
HasRecord(id) == \E k \in 1..Len(llm_calls) : llm_calls[k].llm_call_id = id
PastCredentials(i) == invocations[i].llm_call_id # 0
RecordsInAttemptOrder ==
    /\ \A j, k \in 1..Len(llm_calls) :
          j < k => llm_calls[j].llm_call_id < llm_calls[k].llm_call_id
    /\ \A i \in 1..(Len(invocations) - 1) : PastCredentials(i) => HasRecord(invocations[i].llm_call_id)
    /\ \A k \in 1..Len(llm_calls) :
          \E i \in 1..Len(invocations) : invocations[i].llm_call_id = llm_calls[k].llm_call_id

\* C29: in a repair loop the audit record of an attempt is written before
\* the router is invoked for the next attempt, the records are in attempt
\* order, and when the loop has ended there are as many records as
\* invocations that got past credential resolution.
C29_AuditRecordsFollowAttempts ==
    InLoop =>
        /\ RecordsInAttemptOrder
        /\ pc = "finished" =>
              Len(llm_calls) = Cardinality({i \in 1..Len(invocations) : PastCredentials(i)})

\* What does hold: the same count without the invocations that end with an
\* exception the router does not handle.
Unaudited(i) == invocations[i].done /\ invocations[i].outcome \in ProviderErrorTypes
AuditRecordsFollowHandledAttempts ==
    InLoop =>
        /\ RecordsInAttemptOrder
        /\ pc = "finished" =>
              Len(llm_calls) =
                 Cardinality({i \in 1..Len(invocations) : PastCredentials(i) /\ ~Unaudited(i)})

C29_OrderWitness ==
    /\ pc = "finished"
    /\ Len(llm_calls) = 3
    /\ Len(invocations) = 3
    /\ \A k \in 1..3 : llm_calls[k].llm_call_id = invocations[k].llm_call_id
C29_MissingRecordWitness ==
    /\ pc = "finished"
    /\ Len(invocations) = 2
    /\ Len(llm_calls) = 1
    /\ PastCredentials(2)
    /\ invocations[2].outcome = "ProviderResponseError"
\* ---------------------------------------------------------------- C30
Frame(request) == [request EXCEPT !.user_prompt = InitialPrompt]

\* C30: the requests a use case hands to the router in one execution agree
\* on task type, system prompt, response schema, correlation id, course and
\* module ids, token limit and temperature; they differ in the user prompt
\* at most, and carry the correlation id drawn at the start.
C30_RequestFrameUnchanged ==
    InLoop =>
        /\ \A i, j \in 1..Len(requests) : Frame(requests[i]) = Frame(requests[j])
        /\ \A i \in 1..Len(requests) :
              /\ requests[i].correlation_id = correlation_id
              /\ requests[i].user_prompt = invocations[i].user_prompt
        /\ Len(requests) = Len(invocations)

C30_Witness ==
    /\ useCase = "practice"
    /\ pc = "finished"
    /\ Len(requests) = 3
    /\ requests[1].user_prompt = InitialPrompt
    /\ requests[2].user_prompt # requests[1].user_prompt
    /\ requests[3].user_prompt # requests[2].user_prompt
    /\ requests[3].temperature = 3
    /\ requests[3].correlation_id = <<"uuid4", 0>>
====
